---- MODULE Spec2Model ----
(***************************************************************************)
(* Prompt-to-validated-query pipeline of Synapse-Phoenix: the relevance    *)
(* filter (my_app/utils.py), the response extractor, the safety gate and   *)
(* the executor (my_app/views.py, main.py), driven by the CLI entry point  *)
(* main() and by the web view index().                                     *)
(*                                                                         *)
(* Text is modelled as a sequence of one-character strings, so that        *)
(* lower(), upper(), strip(), split(), substring search, the \b regular    *)
(* expression and json.loads are computed character by character.          *)
(***************************************************************************)
EXTENDS Integers, Sequences, FiniteSets, TLC

VARIABLES
    \* ---- one request of the pipeline (CLI run or web request) ----
    mode,           \* "cli" (main.py main) or "web" (views.py index)
    method,         \* web: request.method
    pc,             \* position of the request in main() / index()
    api_key,        \* os.getenv("OPENAI_API_KEY") is set
    user_text,      \* sys.argv[1:] joined / request.POST['prompt']
    prompt,         \* test_message / prompt after .strip()
    response_text,  \* response.choices[0].message.content
    sql_query,      \* result of extract_sql_query
    safety,         \* result of validate_sql_safety: [is_safe, keyword]
    db_result,      \* result of execute_sql_query: [columns, rows]
    context,        \* web: the template context
    exit_code,      \* cli: process exit status, -1 while running
    out,            \* cli: what was printed (stdout and stderr)
    steps,          \* the pipeline steps run so far, in order: [step, text, ok]
    failed,         \* the error kind of the request, "none" until one occurs
    \* ---- harness of the pure functions ----
    fn,             \* which function the harness applies
    arg,            \* its argument
    ret,            \* its results
    \* ---- the offline loader (management command load_parquet) ----
    loader,         \* the locals of Command.handle
    table           \* the rows of the Transaction table

vars == << mode, method, pc, api_key, user_text, prompt, response_text,
           sql_query, safety, db_result, context, exit_code, out, steps,
           failed, fn, arg, ret, loader, table >>

pipeVars == << mode, method, pc, api_key, user_text, prompt, response_text,
               sql_query, safety, db_result, context, exit_code, out, steps,
               failed >>

fnVars == << fn, arg, ret, loader, table >>

\* the load command is not running
IdleLoader ==
    [pc |-> "idle", run |-> 0, rg_idx |-> 0, reads |-> 0, batch_objs |-> << >>,
     total_loaded |-> 0, submitted |-> << >>, processed |-> {}, slices |-> << >>,
     first_run |-> << >>]

(***************************************************************************)
(* Characters and Python's str methods                                     *)
(***************************************************************************)
LowerLetters ==
    << "a","b","c","d","e","f","g","h","i","j","k","l","m",
       "n","o","p","q","r","s","t","u","v","w","x","y","z" >>

UpperLetters ==
    << "A","B","C","D","E","F","G","H","I","J","K","L","M",
       "N","O","P","Q","R","S","T","U","V","W","X","Y","Z" >>

Digits == {"0","1","2","3","4","5","6","7","8","9"}

\* str.isspace() on the characters of the model's alphabet
Whitespace == {" ", "\t", "\n", "\r"}

LowerSet == { LowerLetters[i] : i \in 1..Len(LowerLetters) }

UpperSet == { UpperLetters[i] : i \in 1..Len(UpperLetters) }

\* the case mappings of the ASCII letters
ToLower == [c \in UpperSet |-> LowerLetters[CHOOSE i \in 1..Len(UpperLetters) : UpperLetters[i] = c]]

ToUpper == [c \in LowerSet |-> UpperLetters[CHOOSE i \in 1..Len(LowerLetters) : LowerLetters[i] = c]]

IsLower(c) == c \in LowerSet

IsUpper(c) == c \in UpperSet

LowerChar(c) == IF c \in UpperSet THEN ToLower[c] ELSE c

UpperChar(c) == IF c \in LowerSet THEN ToUpper[c] ELSE c

\* str.lower()
Lower(s) == [i \in 1..Len(s) |-> LowerChar(s[i])]

\* str.upper()
Upper(s) == [i \in 1..Len(s) |-> UpperChar(s[i])]

\* str.strip(): drops leading and trailing whitespace
Strip(s) ==
    LET keep == {i \in 1..Len(s) : s[i] \notin Whitespace}
    IN  IF keep = {} THEN << >>
        ELSE LET lo == CHOOSE i \in keep : \A j \in keep : i <= j
                 hi == CHOOSE i \in keep : \A j \in keep : i >= j
             IN  SubSeq(s, lo, hi)

\* s[i:i+len(p)] == p
MatchAt(s, p, i) ==
    /\ i >= 1
    /\ i + Len(p) - 1 <= Len(s)
    /\ \A k \in 1..Len(p) : s[i + k - 1] = p[k]

\* p in s
Contains(s, p) == \E i \in 1..(Len(s) - Len(p) + 1) : MatchAt(s, p, i)

\* str.startswith
StartsWith(s, p) == MatchAt(s, p, 1)

\* any(w in s for w in words)
ContainsAny(s, words) == \E k \in 1..Len(words) : Contains(s, words[k])

RECURSIVE Concat(_)
\* "".join(parts)
Concat(parts) ==
    IF parts = << >> THEN << >> ELSE Head(parts) \o Concat(Tail(parts))

(***************************************************************************)
(* Relevance Filter: my_app/utils.py validate_sql_query                    *)
(***************************************************************************)
sql_keywords ==
    << <<"s","q","l">>,
       <<"q","u","e","r","y">>,
       <<"s","e","l","e","c","t">>,
       <<"w","h","e","r","e">>,
       <<"f","r","o","m">>,
       <<"j","o","i","n">>,
       <<"g","r","o","u","p"," ","b","y">>,
       <<"o","r","d","e","r"," ","b","y">>,
       <<"t","o","p">>,
       <<"r","e","t","r","i","e","v","e">>,
       <<"g","e","t">>,
       <<"f","i","n","d">>,
       <<"s","h","o","w">>,
       <<"l","i","s","t">>,
       <<"c","o","u","n","t">>,
       <<"s","u","m">>,
       <<"a","v","g">>,
       <<"m","a","x">>,
       <<"m","i","n">>,
       <<"m","e","r","c","h","a","n","t">>,
       <<"r","e","v","e","n","u","e">>,
       <<"t","r","a","n","s","a","c","t","i","o","n">>,
       <<"s","a","l","e","s">>,
       <<"t","a","b","l","e">>,
       <<"c","o","l","u","m","n">>,
       <<"f","i","l","t","e","r">>,
       <<"s","o","r","t">>,
       <<"a","g","g","r","e","g","a","t","e">>,
       <<"t","r","x">>,
       <<"a","m","o","u","n","t">>,
       <<"d","a","t","e">>,
       <<"c","a","r","d">>,
       <<"i","s","s","u","e","r">>,
       <<"a","c","q","u","i","r","e","r">>,
       <<"m","c","c">>,
       <<"w","a","l","l","e","t">>,
       <<"c","u","r","r","e","n","c","y">>,
       <<"c","i","t","y">>,
       <<"t","i","m","e","s","t","a","m","p">> >>

schema_columns ==
    << <<"t","r","a","n","s","a","c","t","i","o","n","_","i","d">>,
       <<"t","r","a","n","s","a","c","t","i","o","n","_","t","i","m","e","s","t","a","m","p">>,
       <<"c","a","r","d","_","i","d">>,
       <<"e","x","p","i","r","y","_","d","a","t","e">>,
       <<"i","s","s","u","e","r","_","b","a","n","k","_","n","a","m","e">>,
       <<"m","e","r","c","h","a","n","t","_","i","d">>,
       <<"m","e","r","c","h","a","n","t","_","m","c","c">>,
       <<"m","c","c","_","c","a","t","e","g","o","r","y">>,
       <<"m","e","r","c","h","a","n","t","_","c","i","t","y">>,
       <<"t","r","a","n","s","a","c","t","i","o","n","_","t","y","p","e">>,
       <<"t","r","a","n","s","a","c","t","i","o","n","_","a","m","o","u","n","t","_","k","z","t">>,
       <<"o","r","i","g","i","n","a","l","_","a","m","o","u","n","t">>,
       <<"t","r","a","n","s","a","c","t","i","o","n","_","c","u","r","r","e","n","c","y">>,
       <<"a","c","q","u","i","r","e","r","_","c","o","u","n","t","r","y","_","i","s","o">>,
       <<"p","o","s","_","e","n","t","r","y","_","m","o","d","e">>,
       <<"w","a","l","l","e","t","_","t","y","p","e">>,
       <<"i","n","d","e","x","_","l","e","v","e","l","_","0">>,
       <<"t","r","a","n","s","a","c","t","i","o","n">>,
       <<"m","e","r","c","h","a","n","t">>,
       <<"c","a","r","d">>,
       <<"a","m","o","u","n","t">>,
       <<"c","u","r","r","e","n","c","y">>,
       <<"m","c","c">>,
       <<"w","a","l","l","e","t">> >>

off_topic_patterns ==
    << <<"h","e","l","l","o">>,
       <<"h","i">>,
       <<"h","o","w"," ","a","r","e"," ","y","o","u">>,
       <<"w","h","a","t"," ","c","a","n"," ","y","o","u"," ","d","o">>,
       <<"t","e","l","l"," ","m","e"," ","a","b","o","u","t">>,
       <<"e","x","p","l","a","i","n"," ","y","o","u","r","s","e","l","f">>,
       <<"w","h","o"," ","a","r","e"," ","y","o","u">>,
       <<"w","h","a","t"," ","i","s">>,
       <<"d","e","f","i","n","e">>,
       <<"h","e","l","p"," ","m","e"," ","w","i","t","h">>,
       <<"w","r","i","t","e"," ","a"," ","p","o","e","m">>,
       <<"j","o","k","e">>,
       <<"s","t","o","r","y">>,
       <<"c","o","d","e"," ","i","n">>,
       <<"p","y","t","h","o","n">>,
       <<"j","a","v","a","s","c","r","i","p","t">> >>

MinInputLen == 5

\* The filter with the off-topic test dropped; a faulty variant kept for comparison.
validate_sql_query_no_off_topic(user_input) ==
    LET user_lower == Strip(Lower(user_input))
    IN  IF Len(user_lower) < MinInputLen THEN FALSE
        ELSE ContainsAny(user_lower, sql_keywords)
               \/ ContainsAny(user_lower, schema_columns)

validate_sql_query(user_input) ==
    LET user_lower == Strip(Lower(user_input))
        has_sql_keyword == ContainsAny(user_lower, sql_keywords)
        has_schema_reference == ContainsAny(user_lower, schema_columns)
        has_off_topic == ContainsAny(user_lower, off_topic_patterns)
    IN  IF Len(user_lower) < MinInputLen THEN FALSE
        ELSE IF has_off_topic /\ ~has_sql_keyword THEN FALSE
        ELSE has_sql_keyword \/ has_schema_reference

(***************************************************************************)
(* Harness of validate_sql_query: the argument is a concatenation of at    *)
(* most MaxRelTokens tokens: one schema column (in lower or upper case),   *)
(* off-topic phrases, a SQL keyword, blanks and a neutral filler.          *)
(***************************************************************************)
MaxRelTokens == 3

NumSchemaColumns == 17

T_space == <<" ">>

T_hi == <<"h","i">>

T_what_is == <<"w","h","a","t"," ","i","s">>

T_sum == <<"s","u","m">>

T_zz == <<"z","z">>

RelTokens(k) ==
    { schema_columns[k], Upper(schema_columns[k]),
      T_space, T_hi, T_what_is, T_sum, T_zz }

\* all sequences over S of length at most n
SeqsUpTo(S, n) == UNION { [1..m -> S] : m \in 0..n }

RelInputs(n) ==
    UNION { { Concat(ts) : ts \in SeqsUpTo(RelTokens(k), n) }
            : k \in 1..NumSchemaColumns }

\* the template context of index(): every field None (<< >>); a field that is
\* set holds <<value>>
EmptyContext ==
    [error |-> << >>, sql_query |-> << >>, columns |-> << >>, rows |-> << >>,
     prompt |-> << >>, analysis |-> << >>]

NoSafety == [done |-> FALSE, is_safe |-> FALSE, keyword |-> << >>]

NoResult == [done |-> FALSE, columns |-> 0, rows |-> 0, error |-> << >>]

\* no request is running: the state of the pipeline in the function harnesses
IdlePipe ==
    /\ mode = "none"
    /\ method = "none"
    /\ pc = "idle"
    /\ api_key = FALSE
    /\ user_text = << >>
    /\ prompt = << >>
    /\ response_text = << >>
    /\ sql_query = << >>
    /\ safety = NoSafety
    /\ db_result = NoResult
    /\ context = EmptyContext
    /\ exit_code = -1
    /\ out = << >>
    /\ steps = << >>
    /\ failed = "none"

InitRelevance ==
    /\ IdlePipe
    /\ fn = "validate_sql_query"
    /\ arg \in RelInputs(MaxRelTokens)
    /\ ret = [done |-> FALSE, value |-> FALSE]
    /\ loader = IdleLoader
    /\ table = << >>

\* the harness calls validate_sql_query(arg)
CallValidateSqlQuery ==
    /\ fn = "validate_sql_query"
    /\ ~ret.done
    /\ ret' = [done |-> TRUE, value |-> validate_sql_query(arg)]
    /\ UNCHANGED << fn, arg, loader, table >>
    /\ UNCHANGED pipeVars

NextRelevance == CallValidateSqlQuery

SpecRelevance == InitRelevance /\ [][NextRelevance]_vars

\* s contains p, by comparing every slice of s with p
HasSlice(s, p) ==
    \E i \in 1..(Len(s) - Len(p) + 1) : SubSeq(s, i, i + Len(p) - 1) = p

NamedColumns == { schema_columns[k] : k \in 1..NumSchemaColumns }

SqlKeywordSet == { sql_keywords[k] : k \in 1..Len(sql_keywords) }

SchemaRefSet == { schema_columns[k] : k \in 1..Len(schema_columns) }

OffTopicSet == { off_topic_patterns[k] : k \in 1..Len(off_topic_patterns) }

\* C4: every input that contains the name of one of the 17 schema columns is
\* accepted by validate_sql_query, whatever off-topic phrase it also contains.
C4_ColumnAlwaysAccepted ==
    (ret.done /\ fn = "validate_sql_query"
        /\ \E c \in NamedColumns : HasSlice(arg, c))
    => ret.value = TRUE

\* C5: with t = s lower-cased and trimmed, validate_sql_query(s) is False when
\* len(t) < 5 (so every s shorter than 5 characters is rejected), else False
\* when t has an off-topic phrase and no SQL/domain keyword, else True exactly
\* when t has a SQL/domain keyword or a schema-column substring.
C5_RelevanceDecision ==
    (ret.done /\ fn = "validate_sql_query") =>
        LET t == Strip(Lower(arg))
            kw == \E w \in SqlKeywordSet : HasSlice(t, w)
            col == \E w \in SchemaRefSet : HasSlice(t, w)
            off == \E w \in OffTopicSet : HasSlice(t, w)
        IN  /\ (Len(arg) < 5 => ret.value = FALSE)
            /\ (Len(t) < 5 => ret.value = FALSE)
            /\ (Len(t) >= 5 /\ off /\ ~kw => ret.value = FALSE)
            /\ (Len(t) >= 5 /\ ~(off /\ ~kw) => ret.value = (kw \/ col))

\* C5 witness: the three branches of the decision are all exercised by one
\* call: here an input of five or more characters that has an off-topic
\* phrase together with a keyword, and is accepted.
C5_Witness ==
    /\ ret.done /\ fn = "validate_sql_query"
    /\ Len(Strip(Lower(arg))) >= 5
    /\ \E w \in OffTopicSet : HasSlice(Strip(Lower(arg)), w)
    /\ \E w \in SqlKeywordSet : HasSlice(Strip(Lower(arg)), w)
    /\ ret.value = TRUE

(***************************************************************************)
(* Safety Gate: my_app/views.py and main.py validate_sql_safety            *)
(***************************************************************************)
dangerous_keywords ==
    << <<"D","R","O","P">>,
       <<"D","E","L","E","T","E">>,
       <<"U","P","D","A","T","E">>,
       <<"I","N","S","E","R","T">>,
       <<"A","L","T","E","R">>,
       <<"C","R","E","A","T","E">>,
       <<"T","R","U","N","C","A","T","E">>,
       <<"E","X","E","C">>,
       <<"E","X","E","C","U","T","E">>,
       <<"G","R","A","N","T">>,
       <<"R","E","V","O","K","E">>,
       <<"C","O","M","M","I","T">>,
       <<"R","O","L","L","B","A","C","K">>,
       <<"L","O","C","K">>,
       <<"U","N","L","O","C","K">> >>

\* \w of Python's re on the characters of the model's alphabet
WordChars == LowerSet \cup UpperSet \cup Digits \cup {"_"}

IsWordChar(c) == c \in WordChars

\* \b at the gap before s[i] (i in 1..Len(s)+1): exactly one neighbour is \w
WordBoundary(s, i) ==
    LET before == i > 1 /\ IsWordChar(s[i - 1])
        after == i <= Len(s) /\ IsWordChar(s[i])
    IN  before # after

\* re.search(r'\b' + re.escape(keyword) + r'\b', s)
SearchWord(s, keyword) ==
    \E i \in 1..(Len(s) - Len(keyword) + 1) :
        /\ WordBoundary(s, i)
        /\ MatchAt(s, keyword, i)
        /\ WordBoundary(s, i + Len(keyword))

\* The gate matching the keyword anywhere, without \b; a faulty variant kept for comparison.
validate_sql_safety_substring(query) ==
    LET sql_upper == Strip(Upper(query))
        hits == {k \in 1..Len(dangerous_keywords) :
                    Contains(sql_upper, dangerous_keywords[k])}
    IN  IF hits = {}
        THEN [is_safe |-> TRUE, keyword |-> << >>]
        ELSE [is_safe |-> FALSE,
              keyword |-> dangerous_keywords[CHOOSE k \in hits : \A j \in hits : k <= j]]

\* returns (is_safe, error_message); the message is
\* "Dangerous SQL operation detected: " + keyword, kept here as the keyword
\* (<< >> for None). The for loop returns at the first keyword that matches.
validate_sql_safety(query) ==
    LET sql_upper == Strip(Upper(query))
        hits == {k \in 1..Len(dangerous_keywords) :
                    SearchWord(sql_upper, dangerous_keywords[k])}
    IN  IF hits = {}
        THEN [is_safe |-> TRUE, keyword |-> << >>]
        ELSE [is_safe |-> FALSE,
              keyword |-> dangerous_keywords[CHOOSE k \in hits : \A j \in hits : k <= j]]

(***************************************************************************)
(* Harness of validate_sql_safety: the query is a concatenation of at most *)
(* MaxSqlTokens tokens: one denylisted verb in lower and in mixed case,    *)
(* the next verb of the list in upper case, separators (blank, semicolon,  *)
(* quote, comment dash) and an identifier tail that glues to a verb.       *)
(***************************************************************************)
MaxSqlTokens == 3

T_semicolon == <<";">>

T_quote == <<"'">>

T_dash == <<"-">>

T_id == <<"_","i","d">>

\* "Drop" for "DROP"
Capitalized(w) == [i \in 1..Len(w) |-> IF i = 1 THEN w[i] ELSE LowerChar(w[i])]

NextVerb(k) == dangerous_keywords[(k % Len(dangerous_keywords)) + 1]

SqlTokens(k) ==
    { Lower(dangerous_keywords[k]), Capitalized(dangerous_keywords[k]),
      NextVerb(k), T_space, T_semicolon, T_quote, T_dash, T_id }

SqlInputs(n) ==
    UNION { { Concat(ts) : ts \in SeqsUpTo(SqlTokens(k), n) }
            : k \in 1..Len(dangerous_keywords) }

InitSafety ==
    /\ IdlePipe
    /\ fn = "validate_sql_safety"
    /\ arg \in SqlInputs(MaxSqlTokens)
    /\ ret = [done |-> FALSE, is_safe |-> FALSE, keyword |-> << >>]
    /\ loader = IdleLoader
    /\ table = << >>

\* the harness calls validate_sql_safety(arg)
CallValidateSqlSafety ==
    /\ fn = "validate_sql_safety"
    /\ ~ret.done
    /\ \E r \in { validate_sql_safety(arg) } :
         ret' = [done |-> TRUE, is_safe |-> r.is_safe, keyword |-> r.keyword]
    /\ UNCHANGED << fn, arg, loader, table >>
    /\ UNCHANGED pipeVars

NextSafety == CallValidateSqlSafety

SpecSafety == InitSafety /\ [][NextSafety]_vars

\* the words of s: its maximal runs of word characters, as (first, last)
WordSpans(s) ==
    LET starts == { i \in 1..Len(s) :
                      IsWordChar(s[i]) /\ (i = 1 \/ ~IsWordChar(s[i - 1])) }
        ends == { j \in 1..Len(s) :
                      IsWordChar(s[j]) /\ (j = Len(s) \/ ~IsWordChar(s[j + 1])) }
    IN  { <<i, CHOOSE j \in ends : j >= i /\ \A e \in ends : e >= i => j <= e>>
            : i \in starts }

\* the denylisted verbs that occur in s as a separate word, in any case
VerbsAsWords(s) ==
    { Upper(SubSeq(s, sp[1], sp[2])) : sp \in WordSpans(s) }
        \cap { dangerous_keywords[k] : k \in 1..Len(dangerous_keywords) }

\* C3: a query, in any letter case, that has a denylisted verb as a separate
\* word anywhere (after a semicolon, in a string literal, in a comment) is
\* rejected with a message naming a denylisted verb that occurs as a separate
\* word (that verb itself when only one occurs); a query that has denylisted
\* verbs only inside longer identifiers is accepted with no message.
C3_DenylistDecision ==
    (ret.done /\ fn = "validate_sql_safety") =>
        LET verbs == VerbsAsWords(arg)
        IN  /\ (verbs # {} => ~ret.is_safe /\ ret.keyword \in verbs)
            /\ (verbs = {} => ret.is_safe /\ ret.keyword = << >>)

\* C3 witness: a query in which a denylisted verb occurs only glued to an
\* identifier tail has been accepted.
C3_Witness ==
    /\ ret.done /\ fn = "validate_sql_safety"
    /\ \E k \in 1..Len(dangerous_keywords) : Contains(Upper(arg), dangerous_keywords[k])
    /\ VerbsAsWords(arg) = {}
    /\ ret.is_safe

(***************************************************************************)
(* json.loads, as far as extract_sql_query observes it: whether the text   *)
(* is valid JSON, whether the value is an object, and the values of its    *)
(* "query" and "sql" members.  A parsed value is                           *)
(*   [t |-> "str", s |-> chars], [t |-> "num"], [t |-> "lit"] (null, true, *)
(*   false), [t |-> "arr"] or [t |-> "obj", query |-> opt, sql |-> opt],    *)
(* opt being << >> (key absent) or <<value>>.  A parse step returns        *)
(* [ok, v, pos]: pos is the index after the value.  String escapes \b, \f  *)
(* and \uXXXX are outside the alphabet of the model and read as errors.    *)
(***************************************************************************)
JsonFail == [ok |-> FALSE, v |-> [t |-> "lit"], pos |-> 0]

JsonOk(v, pos) == [ok |-> TRUE, v |-> v, pos |-> pos]

RECURSIVE SkipWs(_, _)
\* WHITESPACE.match(s, i).end()
SkipWs(s, i) ==
    IF i <= Len(s) /\ s[i] \in Whitespace THEN SkipWs(s, i + 1) ELSE i

RECURSIVE SkipDigits(_, _)
SkipDigits(s, i) ==
    IF i <= Len(s) /\ s[i] \in Digits THEN SkipDigits(s, i + 1) ELSE i

CharAt(s, i) == IF i >= 1 /\ i <= Len(s) THEN s[i] ELSE "<eof>"

\* the character an escape \e stands for; "<eof>" when the escape is invalid
Unescaped(e) ==
    IF e \in {"\"", "\\", "/"} THEN e
    ELSE IF e = "n" THEN "\n"
    ELSE IF e = "t" THEN "\t"
    ELSE IF e = "r" THEN "\r"
    ELSE "<eof>"

RECURSIVE ScanString(_, _, _)
\* py_scanstring from the character after the opening quote (strict mode)
ScanString(s, i, acc) ==
    IF i > Len(s) THEN JsonFail
    ELSE IF s[i] = "\"" THEN JsonOk([t |-> "str", s |-> acc], i + 1)
    ELSE IF s[i] \in {"\n", "\t", "\r"} THEN JsonFail
    ELSE IF s[i] = "\\"
         THEN IF Unescaped(CharAt(s, i + 1)) = "<eof>" THEN JsonFail
              ELSE ScanString(s, i + 2, Append(acc, Unescaped(CharAt(s, i + 1))))
    ELSE ScanString(s, i + 1, Append(acc, s[i]))

W_NaN == <<"N","a","N">>

W_Infinity == <<"I","n","f","i","n","i","t","y">>

W_null == <<"n","u","l","l">>

W_true == <<"t","r","u","e">>

W_false == <<"f","a","l","s","e">>

\* the exponent part [eE][-+]?\d+ of NUMBER_RE, from index f
NumExpDigits(s, f) == IF CharAt(s, f + 1) \in {"-", "+"} THEN f + 2 ELSE f + 1

NumExp(s, f) ==
    IF CharAt(s, f) \in {"e", "E"} /\ CharAt(s, NumExpDigits(s, f)) \in Digits
    THEN SkipDigits(s, NumExpDigits(s, f)) ELSE f

\* the fraction part \.\d+ of NUMBER_RE, from index e
NumFrac(s, e) ==
    IF CharAt(s, e) = "." /\ CharAt(s, e + 1) \in Digits
    THEN SkipDigits(s, e + 1) ELSE e

\* the integer part 0|[1-9]\d* of NUMBER_RE, from index d
NumInt(s, d) == IF CharAt(s, d) = "0" THEN d + 1 ELSE SkipDigits(s, d)

\* a number whose digits start at d (d = i + 1 after a minus sign)
ScanNumberFrom(s, i, d) ==
    IF CharAt(s, d) \in Digits
    THEN JsonOk([t |-> "num"], NumExp(s, NumFrac(s, NumInt(s, d))))
    ELSE IF d > i /\ MatchAt(s, W_Infinity, d)
    THEN JsonOk([t |-> "num"], d + Len(W_Infinity))
    ELSE JsonFail

\* NUMBER_RE: (-?(?:0|[1-9]\d*))(\.\d+)?([eE][-+]?\d+)?, and -Infinity
ScanNumber(s, i) == ScanNumberFrom(s, i, IF CharAt(s, i) = "-" THEN i + 1 ELSE i)

W_query == <<"q","u","e","r","y">>

W_sql == <<"s","q","l">>

EmptyObject == [t |-> "obj", query |-> << >>, sql |-> << >>]

\* obj[key] = v for the two keys extract_sql_query reads
PutMember(obj, key, v) ==
    IF key = W_query THEN [obj EXCEPT !.query = << v >>]
    ELSE IF key = W_sql THEN [obj EXCEPT !.sql = << v >>]
    ELSE obj

RECURSIVE ScanValue(_, _), ScanMembers(_, _, _), AfterKey(_, _, _),
          AfterColon(_, _, _, _), AfterValue(_, _, _, _), NextMember(_, _, _),
          ScanElements(_, _), AfterElement(_, _), NextElement(_, _)

\* JSONObject after "{" and whitespace, at index j
OpenObject(s, j) ==
    IF CharAt(s, j) = "}" THEN JsonOk(EmptyObject, j + 1)
    ELSE ScanMembers(s, j, EmptyObject)

\* JSONArray after "[" and whitespace, at index j
OpenArray(s, j) ==
    IF CharAt(s, j) = "]" THEN JsonOk([t |-> "arr"], j + 1)
    ELSE ScanElements(s, j)

\* scan_once(s, i)
ScanValue(s, i) ==
    IF CharAt(s, i) = "\"" THEN ScanString(s, i + 1, << >>)
    ELSE IF CharAt(s, i) = "{" THEN OpenObject(s, SkipWs(s, i + 1))
    ELSE IF CharAt(s, i) = "[" THEN OpenArray(s, SkipWs(s, i + 1))
    ELSE IF MatchAt(s, W_null, i) THEN JsonOk([t |-> "lit"], i + Len(W_null))
    ELSE IF MatchAt(s, W_true, i) THEN JsonOk([t |-> "lit"], i + Len(W_true))
    ELSE IF MatchAt(s, W_false, i) THEN JsonOk([t |-> "lit"], i + Len(W_false))
    ELSE IF MatchAt(s, W_NaN, i) THEN JsonOk([t |-> "num"], i + Len(W_NaN))
    ELSE IF MatchAt(s, W_Infinity, i) THEN JsonOk([t |-> "num"], i + Len(W_Infinity))
    ELSE ScanNumber(s, i)

\* JSONObject at a member's key; obj holds the members read so far (a later
\* member replaces an earlier one of the same key, as in a dict)
ScanMembers(s, i, obj) ==
    IF CharAt(s, i) # "\"" THEN JsonFail
    ELSE AfterKey(s, ScanString(s, i + 1, << >>), obj)

\* the key is read: whitespace, then ":" is expected
AfterKey(s, key, obj) ==
    IF ~key.ok THEN JsonFail ELSE AfterColon(s, key, SkipWs(s, key.pos), obj)

\* at the ":": whitespace, then the member's value
AfterColon(s, key, colon, obj) ==
    IF CharAt(s, colon) # ":" THEN JsonFail
    ELSE AfterValue(s, key, ScanValue(s, SkipWs(s, colon + 1)), obj)

\* the value is read: whitespace, then "," or "}"
AfterValue(s, key, val, obj) ==
    IF ~val.ok THEN JsonFail
    ELSE NextMember(s, SkipWs(s, val.pos), PutMember(obj, key.v.s, val.v))

NextMember(s, j, obj) ==
    IF CharAt(s, j) = "}" THEN JsonOk(obj, j + 1)
    ELSE IF CharAt(s, j) = "," THEN ScanMembers(s, SkipWs(s, j + 1), obj)
    ELSE JsonFail

\* JSONArray at an element
ScanElements(s, i) == AfterElement(s, ScanValue(s, i))

\* the element is read: whitespace, then "," or "]"
AfterElement(s, val) ==
    IF ~val.ok THEN JsonFail ELSE NextElement(s, SkipWs(s, val.pos))

NextElement(s, j) ==
    IF CharAt(s, j) = "]" THEN JsonOk([t |-> "arr"], j + 1)
    ELSE IF CharAt(s, j) = "," THEN ScanElements(s, SkipWs(s, j + 1))
    ELSE JsonFail

\* the whole text must be one value between whitespace
WholeText(text, val) ==
    IF val.ok /\ SkipWs(text, val.pos) = Len(text) + 1 THEN val ELSE JsonFail

\* json.loads(text): [ok |-> FALSE] stands for JSONDecodeError
json_loads(text) == WholeText(text, ScanValue(text, SkipWs(text, 1)))

(***************************************************************************)
(* Response Extractor: my_app/views.py and main.py extract_sql_query       *)
(***************************************************************************)
NL == "\n"

\* the backtick character (the lexer of TLA+ has no backtick in strings)
BT == "<backtick>"

Fence3 == <<BT, BT, BT>>

RECURSIVE Split(_, _)
\* str.split(sep) for a one-character separator
Split(s, sep) ==
    IF \A i \in 1..Len(s) : s[i] # sep THEN << s >>
    ELSE LET i == CHOOSE k \in 1..Len(s) : s[k] = sep /\ \A j \in 1..(k - 1) : s[j] # sep
         IN  << SubSeq(s, 1, i - 1) >> \o Split(SubSeq(s, i + 1, Len(s)), sep)

RECURSIVE Join(_, _)
\* sep.join(lines)
Join(lines, sep) ==
    IF lines = << >> THEN << >>
    ELSE IF Len(lines) = 1 THEN lines[1]
    ELSE lines[1] \o << sep >> \o Join(Tail(lines), sep)

\* lines[1:] when lines[0] starts with the fence
DropOpeningFence(lines) ==
    IF StartsWith(lines[1], Fence3) THEN Tail(lines) ELSE lines

\* lines[:-1] when the last line, stripped, is the fence
DropClosingFence(lines) ==
    IF lines # << >> /\ Strip(lines[Len(lines)]) = Fence3
    THEN SubSeq(lines, 1, Len(lines) - 1) ELSE lines

\* The fence removal that keeps the closing fence line; a faulty variant kept for comparison.
FencesOff_keep_closing_fence(text) ==
    IF StartsWith(text, Fence3)
    THEN Strip(Join(DropOpeningFence(Split(text, NL)), NL))
    ELSE Strip(text)

\* if text.startswith('```'): drop the fence lines; then text.strip()
FencesOff(text) ==
    IF StartsWith(text, Fence3)
    THEN Strip(Join(DropClosingFence(DropOpeningFence(Split(text, NL))), NL))
    ELSE Strip(text)

\* the first block of extract_sql_query: strip, then drop the fence lines
RemoveFences(response) == FencesOff(Strip(response))

\* the value of the last statement, text.strip(): a str strips, anything else
\* has no strip() and raises AttributeError ([ok |-> FALSE])
StripValue(v) ==
    IF v.t = "str" THEN [ok |-> TRUE, text |-> Strip(v.s)]
    ELSE [ok |-> FALSE, text |-> << >>]

\* the try block: the query member, else the sql member, else the text
PickQuery(json_data, text) ==
    IF json_data.ok /\ json_data.v.t = "obj" /\ json_data.v.query # << >>
    THEN StripValue(json_data.v.query[1])
    ELSE IF json_data.ok /\ json_data.v.t = "obj" /\ json_data.v.sql # << >>
    THEN StripValue(json_data.v.sql[1])
    ELSE [ok |-> TRUE, text |-> Strip(text)]

ParseAndPick(text) == PickQuery(json_loads(text), text)

\* returns [ok |-> TRUE, text] or, when it raises, [ok |-> FALSE, text |-> << >>]
extract_sql_query(response) == ParseAndPick(RemoveFences(response))

(***************************************************************************)
(* Harness of extract_sql_query: the completion is either one of the raw   *)
(* bodies or a JSON object of at most MaxMembers members (key query, sql   *)
(* or note; value a string, a padded string, a number, null, a list or an  *)
(* object), with or without surrounding whitespace.  The harness extracts  *)
(* from the completion as it is and from the completion wrapped in a       *)
(* ```sql ... ``` fence.                                                   *)
(***************************************************************************)
MaxMembers == 2

\* completions that are not a JSON object with a query or sql member and
\* do not begin with a fence
RawBodies ==
    { <<"S","E","L","E","C","T"," ","1">>,
      <<"S","E","L","E","C","T"," ","1",NL,"F","R","O","M"," ","t">>,
      <<"[","1","]">>,
      <<"\"","a","b","c","\"">>,
      <<"1","2">>,
      <<"n","u","l","l">>,
      <<"{","\"","n","o","t","e","\"",":"," ","\"","x","\"","}">>,
      <<"{","\"","q","u","e","r","y","\"",":"," ","\"","S","E","L","E","C","T"," ","1","\"">>,
      <<"{","\"","q","u","e","r","y","\""," ","\"","x","\"","}">>,
      <<"{","q","u","e","r","y",":"," ","\"","x","\"","}">>,
      <<"{","\"","q","u","e","r","y","\"",":"," ","\"","a","\"",",","}">>,
      <<"{","\"","q","u","e","r","y","\"",":"," ","\"","a","\"","}"," ","x">>,
      <<>>,
      <<"S","E","L","E","C","T"," ","1",NL,BT,BT,BT>> }

\* completions that already begin with a fence
FencedBodies ==
    { <<BT,BT,BT,"s","q","l",NL,"S","E","L","E","C","T"," ","1",NL,BT,BT,BT>>,
      <<BT,BT,BT,NL,"{","\"","q","u","e","r","y","\"",":"," ","\"","S","E","L","E","C","T"," ","1","\"","}",NL,BT,BT,BT>>,
      <<BT,BT,BT,"S","E","L","E","C","T"," ","1",BT,BT,BT>> }

\* member values: what the value is, and how the completion spells it
JsonValues ==
    { [v |-> [t |-> "str", s |-> <<"S","E","L","E","C","T"," ","1">>],
        text |-> <<"\"","S","E","L","E","C","T"," ","1","\"">>],
      [v |-> [t |-> "str", s |-> <<" ","S","E","L","E","C","T"," ","2"," ">>],
        text |-> <<"\""," ","S","E","L","E","C","T"," ","2"," ","\"">>],
      [v |-> [t |-> "num"],
        text |-> <<"1">>],
      [v |-> [t |-> "lit"],
        text |-> <<"n","u","l","l">>],
      [v |-> [t |-> "arr"],
        text |-> <<"[","1","]">>],
      [v |-> [t |-> "obj"],
        text |-> <<"{","\"","s","q","l","\"",":"," ","\"","x","\"","}">>] }

W_note == <<"n","o","t","e">>

JsonKeys == { W_query, W_sql, W_note }

JsonMembers == [key : JsonKeys, val : JsonValues]

RECURSIVE RenderMembers(_)
\* "key": value, "key": value
RenderMembers(ms) ==
    IF ms = << >> THEN << >>
    ELSE <<"\"">> \o Head(ms).key \o <<"\"", ":", " ">> \o Head(ms).val.text
         \o (IF Len(ms) > 1 THEN <<",", " ">> ELSE << >>) \o RenderMembers(Tail(ms))

RenderObject(ms) == <<"{">> \o RenderMembers(ms) \o <<"}">>

Paddings == { << >>, <<" ", NL>> }

\* arg of the harness: the completion c, whether it is a rendered JSON
\* object, and then its members
ExtractInputs(n) ==
    { [c |-> p \o RenderObject(ms) \o p, json |-> TRUE, members |-> ms]
        : p \in Paddings, ms \in SeqsUpTo(JsonMembers, n) }
    \cup
    { [c |-> p \o b \o p, json |-> FALSE, members |-> << >>]
        : p \in Paddings, b \in RawBodies \cup FencedBodies }

W_sql_tag == <<"s","q","l">>

\* the completion wrapped in a fence with a language tag
Fenced(c) == Fence3 \o W_sql_tag \o <<NL>> \o c \o <<NL>> \o Fence3

NotCalled == [done |-> FALSE, ok |-> FALSE, text |-> << >>]

InitExtract ==
    /\ IdlePipe
    /\ fn = "extract_sql_query"
    /\ arg \in ExtractInputs(MaxMembers)
    /\ ret = [plain |-> NotCalled, fenced |-> NotCalled]
    /\ loader = IdleLoader
    /\ table = << >>

\* the harness calls extract_sql_query(c)
CallExtractPlain ==
    /\ fn = "extract_sql_query"
    /\ ~ret.plain.done
    /\ \E r \in { extract_sql_query(arg.c) } :
         ret' = [ret EXCEPT !.plain = [done |-> TRUE, ok |-> r.ok, text |-> r.text]]
    /\ UNCHANGED << fn, arg, loader, table >>
    /\ UNCHANGED pipeVars

\* the harness calls extract_sql_query on c wrapped in a fence
CallExtractFenced ==
    /\ fn = "extract_sql_query"
    /\ ~ret.fenced.done
    /\ \E r \in { extract_sql_query(Fenced(arg.c)) } :
         ret' = [ret EXCEPT !.fenced = [done |-> TRUE, ok |-> r.ok, text |-> r.text]]
    /\ UNCHANGED << fn, arg, loader, table >>
    /\ UNCHANGED pipeVars

NextExtract == CallExtractPlain \/ CallExtractFenced

SpecExtract == InitExtract /\ [][NextExtract]_vars

BothExtracted == fn = "extract_sql_query" /\ ret.plain.done /\ ret.fenced.done

BeginsWithFence(c) ==
    LET first == { i \in 1..Len(c) : c[i] \notin Whitespace }
    IN  \E i \in first :
          /\ \A j \in first : i <= j
          /\ i + 2 <= Len(c)
          /\ c[i] = BT /\ c[i + 1] = BT /\ c[i + 2] = BT

\* C7 as stated: for every completion c, extraction from c wrapped in a
\* ```sql fence gives the same result as extraction from c itself.
C7_FenceRoundTripAll ==
    BothExtracted => ret.fenced = ret.plain

\* C7 amended: for every completion c that does not itself begin (after
\* trimming) with a ``` fence, extraction from c wrapped in a ```sql fence
\* gives the same result as extraction from c itself.
C7_FenceRoundTrip ==
    (BothExtracted /\ ~BeginsWithFence(arg.c)) => ret.fenced = ret.plain

\* C7 witness: a padded JSON completion with a string query member gave the
\* same extracted SQL with and without the fence.
C7_Witness ==
    /\ BothExtracted
    /\ arg.json /\ arg.c[1] = " "
    /\ \E i \in 1..Len(arg.members) :
          arg.members[i].key = W_query /\ arg.members[i].val.v.t = "str"
    /\ ret.plain.ok /\ ret.fenced.ok
    /\ ret.plain.text # << >>
    /\ ret.fenced.text = ret.plain.text

\* the member extract_sql_query is to take: the last query member, else the
\* last sql member; 0 when the object has neither
ChosenMember(ms) ==
    LET qs == { i \in 1..Len(ms) : ms[i].key = W_query }
        ss == { i \in 1..Len(ms) : ms[i].key = W_sql }
        last(S) == CHOOSE i \in S : \A j \in S : j <= i
    IN  IF qs # {} THEN last(qs) ELSE IF ss # {} THEN last(ss) ELSE 0

\* what C8 promises for a call that returned r on the completion in arg
C8_Promise(r) ==
    LET m == IF arg.json THEN ChosenMember(arg.members) ELSE 0
    IN  IF m # 0
        THEN /\ r.ok
             /\ arg.members[m].val.v.t = "str" => r.text = Strip(arg.members[m].val.v.s)
        ELSE /\ r.ok
             /\ r.text = Strip(arg.c)

\* C8: after fence removal and trimming, a JSON object with a query member
\* extracts to that member's value trimmed (query wins over sql), else one
\* with a sql member to that value trimmed; text that is not valid JSON, or
\* not such an object, raises no error and extracts to the trimmed literal.
C8_JsonExtraction ==
    (fn = "extract_sql_query" /\ ~BeginsWithFence(arg.c)) =>
        /\ ret.plain.done => C8_Promise(ret.plain)
        /\ ret.fenced.done => C8_Promise(ret.fenced)


\* C16: extract_sql_query returns a text and raises no error for every
\* completion, also for one that parses as a JSON object whose query or sql
\* value is a number, null, a list or an object.
C16_ExtractNeverRaises ==
    fn = "extract_sql_query" =>
        /\ ret.plain.done => ret.plain.ok
        /\ ret.fenced.done => ret.fenced.ok
(***************************************************************************)
(* One request through the pipeline.  A CLI run is main() of main.py, a    *)
(* web request is index() of my_app/views.py.  The hosted model and the    *)
(* database are the environment: the generation call returns any           *)
(* completion of Completions or raises, the database accepts the statement *)
(* and returns a result of some shape or raises.                           *)
(***************************************************************************)
\* what the user may type
UserTexts ==
    { <<"h","i">>,
      <<>>,
      <<"t","o","p"," ","1","0">>,
      <<"h","i"," ","p","o","s","_","e","n","t","r","y","_","m","o","d","e">>,
      <<" ","s","h","o","w"," ","c","a","r","d"," ">> }

\* what the model may answer
Completions ==
    { <<"S","E","L","E","C","T"," ","1">>,
      <<"D","R","O","P"," ","T","A","B","L","E"," ","t">>,
      <<"E","R","R","O","R",":"," ","n","o">>,
      <<" ","E","R","R","O","R",":"," ","n","o">>,
      <<BT,BT,BT,"s","q","l",NL,"S","E","L","E","C","T"," ","1",NL,BT,BT,BT>>,
      <<"{","\"","q","u","e","r","y","\"",":"," ","\"","S","E","L","E","C","T"," ","1","\"","}">>,
      <<"{","\"","q","u","e","r","y","\"",":"," ","1","}">>,
      <<"s","e","l","e","c","t"," ","d","r","o","p","_","i","d">>,
      <<"A","B","O","R","T">> }

W_ERROR == <<"E","R","R","O","R",":">>

W_ABORT == <<"A","B","O","R","T">>

W_MERGE == <<"M","E","R","G","E">>

W_COPY == <<"C","O","P","Y">>

W_INTO == <<"I","N","T","O">>

W_BEGIN == <<"B","E","G","I","N">>

\* the exceptions of client.chat.completions.create that main() and index()
\* tell apart, Exception standing for every other one
GenerationErrors ==
    { "AuthenticationError", "APIConnectionError", "APIError", "Exception" }

\* the shapes of (columns, rows) the executor returns: numbers of each
ResultShapes ==
    { [columns |-> 0, rows |-> 0], [columns |-> 2, rows |-> 0],
      [columns |-> 2, rows |-> 3] }

\* the messages of the exceptions cursor.execute raises
DbErrors ==
    { <<"s","y","n","t","a","x"," ","e","r","r","o","r">>,
      <<"n","o"," ","s","u","c","h"," ","t","a","b","l","e">> }

\* raise Exception(f"Database error: {str(e)}")
DatabaseError(e) ==
    <<"D","a","t","a","b","a","s","e"," ","e","r","r","o","r",":"," ">> \o e

Step(name, text, ok) == [step |-> name, text |-> text, ok |-> ok]

\* print(fmt.format(args), file=stream)
Line(stream, fmt, args) == [stream |-> stream, fmt |-> fmt, args |-> args]

Init ==
    /\ mode \in {"cli", "web"}
    /\ method \in (IF mode = "web" THEN {"GET", "POST"} ELSE {"none"})
    /\ pc = IF mode = "cli" THEN "load_config" ELSE "method"
    /\ api_key \in BOOLEAN
    /\ user_text \in UserTexts
    /\ prompt = << >>
    /\ response_text = << >>
    /\ sql_query = << >>
    /\ safety = NoSafety
    /\ db_result = NoResult
    /\ context = EmptyContext
    /\ exit_code = -1
    /\ out = << >>
    /\ steps = << >>
    /\ failed = "none"
    /\ fn = "none"
    /\ arg = << >>
    /\ ret = << >>
    /\ loader = IdleLoader
    /\ table = << >>

\* ----------------------------------------------------------------- main()

\* sys.exit(1) after printing lines to stderr
CliExit(kind, lines) ==
    /\ pc' = "exited"
    /\ exit_code' = 1
    /\ failed' = kind
    /\ out' = out \o lines

\* load_config(): exits with 1 when OPENAI_API_KEY is not set
MainLoadConfig ==
    /\ mode = "cli" /\ pc = "load_config"
    /\ IF ~api_key
       THEN CliExit("no-credential",
                    << Line("stderr", "Error: OPENAI_API_KEY not found in .env file.", << >>) >>)
       ELSE /\ pc' = "client"
            /\ UNCHANGED << exit_code, failed, out >>
    /\ UNCHANGED << mode, method, api_key, user_text, prompt, response_text,
                    sql_query, safety, db_result, context, steps >>
    /\ UNCHANGED fnVars

\* client = OpenAI(api_key=api_key), which may raise; then the input is read
\* from sys.argv or, stripped, from input()
MainClient ==
    /\ mode = "cli" /\ pc = "client"
    /\ \E raised \in BOOLEAN, interactive \in BOOLEAN :
         IF raised
         THEN /\ CliExit("client-init",
                         << Line("stderr", "Error initializing OpenAI client: {e}", << >>) >>)
              /\ UNCHANGED prompt
         ELSE /\ pc' = "validate"
              /\ prompt' = IF interactive THEN Strip(user_text) ELSE user_text
              /\ UNCHANGED << exit_code, failed, out >>
    /\ UNCHANGED << mode, method, api_key, user_text, response_text,
                    sql_query, safety, db_result, context, steps >>
    /\ UNCHANGED fnVars

\* The validation step that lets a rejected input through; a faulty variant kept for comparison.
MainValidate_lets_through ==
    /\ mode = "cli" /\ pc = "validate"
    /\ steps' = Append(steps, Step("relevance", prompt, validate_sql_query(prompt)))
    /\ pc' = "generate"
    /\ out' = Append(out, Line("stdout", "Sending message: {test_message}", << prompt >>))
    /\ UNCHANGED << exit_code, failed >>
    /\ UNCHANGED << mode, method, api_key, user_text, prompt, response_text,
                    sql_query, safety, db_result, context >>
    /\ UNCHANGED fnVars

\* if not validate_sql_query(test_message): print the rejection, sys.exit(1)
MainValidate ==
    /\ mode = "cli" /\ pc = "validate"
    /\ \E ok \in { validate_sql_query(prompt) } :
           /\ steps' = Append(steps, Step("relevance", prompt, ok))
           /\ IF ~ok
              THEN CliExit("input-irrelevant",
                           << Line("stderr", "ERROR: This service only accepts SQL query requests for the transaction table. Please provide a SQL-related question.", << >>) >>)
              ELSE /\ pc' = "generate"
                   /\ out' = Append(out, Line("stdout", "Sending message: {test_message}", << prompt >>))
                   /\ UNCHANGED << exit_code, failed >>
    /\ UNCHANGED << mode, method, api_key, user_text, prompt, response_text,
                    sql_query, safety, db_result, context >>
    /\ UNCHANGED fnVars

\* the error kind of a generation exception
GenerationFailure(e) ==
    IF e = "AuthenticationError" THEN "generation-auth"
    ELSE IF e = "APIConnectionError" THEN "generation-connectivity"
    ELSE IF e = "APIError" THEN "generation-protocol"
    ELSE "unexpected"

\* what the except clauses of main() print for a generation exception
MainGenerationMessage(e) ==
    IF e = "AuthenticationError" THEN "Error: Invalid API key. Please check your API key in .env file."
    ELSE IF e = "APIConnectionError" THEN "Error: Network connection failed. {e}"
    ELSE IF e = "APIError" THEN "Error: OpenAI API error. {e}"
    ELSE "Error: Unexpected error occurred. {e}"

\* response = client.chat.completions.create(...): one call, no retry
MainGenerate ==
    /\ mode = "cli" /\ pc = "generate"
    /\ \/ \E e \in GenerationErrors :
            /\ steps' = Append(steps, Step("generate", prompt, FALSE))
            /\ CliExit(GenerationFailure(e),
                       << Line("stderr", MainGenerationMessage(e), << >>) >>)
            /\ UNCHANGED response_text
       \/ \E c \in Completions :
            /\ steps' = Append(steps, Step("generate", prompt, TRUE))
            /\ response_text' = c
            /\ pc' = "refusal"
            /\ UNCHANGED << exit_code, failed, out >>
    /\ UNCHANGED << mode, method, api_key, user_text, prompt,
                    sql_query, safety, db_result, context >>
    /\ UNCHANGED fnVars

\* if response_text.startswith("ERROR:"): print it to stderr, sys.exit(1)
MainRefusal ==
    /\ mode = "cli" /\ pc = "refusal"
    /\ IF StartsWith(response_text, W_ERROR)
       THEN CliExit("refusal", << Line("stderr", "{response_text}", << response_text >>) >>)
       ELSE /\ pc' = "extract"
            /\ UNCHANGED << exit_code, failed, out >>
    /\ UNCHANGED << mode, method, api_key, user_text, prompt, response_text,
                    sql_query, safety, db_result, context, steps >>
    /\ UNCHANGED fnVars

\* sql_query = extract_sql_query(response_text); an exception it raises is
\* caught by except Exception
MainExtract ==
    /\ mode = "cli" /\ pc = "extract"
    /\ \E r \in { extract_sql_query(response_text) } :
           /\ steps' = Append(steps, Step("extract", r.text, r.ok))
           /\ IF ~r.ok
              THEN /\ CliExit("unexpected",
                              << Line("stderr", "Error: Unexpected error occurred. {e}", << >>) >>)
                   /\ UNCHANGED sql_query
              ELSE /\ sql_query' = r.text
                   /\ pc' = "safety"
                   /\ out' = Append(out, Line("stdout", "Generated SQL Query:\n{sql_query}\n", << r.text >>))
                   /\ UNCHANGED << exit_code, failed >>
    /\ UNCHANGED << mode, method, api_key, user_text, prompt, response_text,
                    safety, db_result, context >>
    /\ UNCHANGED fnVars

\* The safety step that runs the query whatever the verdict; a faulty variant kept for comparison.
MainSafety_ignores_verdict ==
    /\ mode = "cli" /\ pc = "safety"
    /\ \E r \in { validate_sql_safety(sql_query) } :
           /\ safety' = [done |-> TRUE, is_safe |-> r.is_safe, keyword |-> r.keyword]
           /\ steps' = Append(steps, Step("safety", sql_query, r.is_safe))
           /\ pc' = "execute"
           /\ out' = Append(out, Line("stdout", "Executing query against database...\n", << >>))
           /\ UNCHANGED << exit_code, failed >>
    /\ UNCHANGED << mode, method, api_key, user_text, prompt, response_text,
                    sql_query, db_result, context >>
    /\ UNCHANGED fnVars

\* The safety step that ends a rejected run with status 0; a faulty variant kept for comparison.
MainSafety_exit_zero ==
    /\ mode = "cli" /\ pc = "safety"
    /\ \E r \in { validate_sql_safety(sql_query) } :
           /\ safety' = [done |-> TRUE, is_safe |-> r.is_safe, keyword |-> r.keyword]
           /\ steps' = Append(steps, Step("safety", sql_query, r.is_safe))
           /\ IF ~r.is_safe
              THEN /\ pc' = "exited"
                   /\ exit_code' = 0
                   /\ failed' = "safety-rejected"
                   /\ out' = out \o << Line("stderr", "Error: {error_msg}", << r.keyword >>),
                                       Line("stderr", "Query was: {sql_query}", << sql_query >>) >>
              ELSE /\ pc' = "execute"
                   /\ out' = Append(out, Line("stdout", "Executing query against database...\n", << >>))
                   /\ UNCHANGED << exit_code, failed >>
    /\ UNCHANGED << mode, method, api_key, user_text, prompt, response_text,
                    sql_query, db_result, context >>
    /\ UNCHANGED fnVars

\* is_safe, error_msg = validate_sql_safety(sql_query); if not is_safe: print
\* the message and the query to stderr, sys.exit(1)
MainSafety ==
    /\ mode = "cli" /\ pc = "safety"
    /\ \E r \in { validate_sql_safety(sql_query) } :
           /\ safety' = [done |-> TRUE, is_safe |-> r.is_safe, keyword |-> r.keyword]
           /\ steps' = Append(steps, Step("safety", sql_query, r.is_safe))
           /\ IF ~r.is_safe
              THEN CliExit("safety-rejected",
                           << Line("stderr", "Error: {error_msg}", << r.keyword >>),
                              Line("stderr", "Query was: {sql_query}", << sql_query >>) >>)
              ELSE /\ pc' = "execute"
                   /\ out' = Append(out, Line("stdout", "Executing query against database...\n", << >>))
                   /\ UNCHANGED << exit_code, failed >>
    /\ UNCHANGED << mode, method, api_key, user_text, prompt, response_text,
                    sql_query, db_result, context >>
    /\ UNCHANGED fnVars

\* The execution step that tries again after a database error; a faulty variant kept for comparison.
MainExecute_retries ==
    /\ mode = "cli" /\ pc = "execute"
    /\ Len(steps) < 8
    /\ \/ /\ steps' = Append(steps, Step("execute", sql_query, FALSE))
          /\ UNCHANGED << pc, exit_code, failed, out, db_result >>
       \/ \E shape \in ResultShapes :
            /\ steps' = Append(steps, Step("execute", sql_query, TRUE))
            /\ db_result' = [done |-> TRUE, columns |-> shape.columns, rows |-> shape.rows, error |-> << >>]
            /\ pc' = "format"
            /\ UNCHANGED << exit_code, failed, out >>
    /\ UNCHANGED << mode, method, api_key, user_text, prompt, response_text,
                    sql_query, safety, context >>
    /\ UNCHANGED fnVars

\* columns, rows = execute_sql_query(sql_query): cursor.execute(sql_query),
\* once; a database error is printed with the query, sys.exit(1)
MainExecute ==
    /\ mode = "cli" /\ pc = "execute"
    /\ \/ \E e \in DbErrors :
            /\ steps' = Append(steps, Step("execute", sql_query, FALSE))
            /\ db_result' = [db_result EXCEPT !.error = << DatabaseError(e) >>]
            /\ CliExit("execution-failure",
                       << Line("stderr", "Error executing SQL query: {db_error}", << DatabaseError(e) >>),
                          Line("stderr", "\nSQL Query that failed:\n{sql_query}", << sql_query >>) >>)
       \/ \E shape \in ResultShapes :
            /\ steps' = Append(steps, Step("execute", sql_query, TRUE))
            /\ db_result' = [done |-> TRUE, columns |-> shape.columns, rows |-> shape.rows, error |-> << >>]
            /\ pc' = "format"
            /\ UNCHANGED << exit_code, failed, out >>
    /\ UNCHANGED << mode, method, api_key, user_text, prompt, response_text,
                    sql_query, safety, context >>
    /\ UNCHANGED fnVars

\* results = format_results(columns, rows); print(results): an exception here
\* is caught by the same except as a database error; otherwise main() returns
\* and the process ends with status 0
MainFormat ==
    /\ mode = "cli" /\ pc = "format"
    /\ \E raised \in BOOLEAN :
       /\ steps' = Append(steps, Step("format", sql_query, ~raised))
       /\ IF raised
         THEN CliExit("format-failure",
                      << Line("stderr", "Error executing SQL query: {db_error}", << >>),
                         Line("stderr", "\nSQL Query that failed:\n{sql_query}", << sql_query >>) >>)
         ELSE /\ out' = Append(out, Line("stdout", "{results}", << >>))
              /\ pc' = "exited"
              /\ exit_code' = 0
              /\ UNCHANGED failed
    /\ UNCHANGED << mode, method, api_key, user_text, prompt, response_text,
                    sql_query, safety, db_result, context >>
    /\ UNCHANGED fnVars

\* ---------------------------------------------------------------- index()

\* context['error'] = message; return render(...)
WebError(kind, fmt, args) ==
    /\ pc' = "rendered"
    /\ failed' = kind
    /\ context' = [context EXCEPT !.error = << [fmt |-> fmt, args |-> args] >>]

\* a GET request: the page is rendered with the context as constructed
IndexGet ==
    /\ mode = "web" /\ pc = "method" /\ method = "GET"
    /\ pc' = "rendered"
    /\ UNCHANGED << mode, method, api_key, user_text, prompt, response_text,
                    sql_query, safety, db_result, context, exit_code, out,
                    steps, failed >>
    /\ UNCHANGED fnVars

\* a POST request: prompt = request.POST.get('prompt', '').strip(); an empty
\* prompt is an error
IndexPost ==
    /\ mode = "web" /\ pc = "method" /\ method = "POST"
    /\ prompt' = Strip(user_text)
    /\ IF Strip(user_text) = << >>
       THEN /\ pc' = "rendered"
            /\ failed' = "empty-prompt"
            /\ context' = [context EXCEPT
                             !.prompt = << Strip(user_text) >>,
                             !.error = << [fmt |-> "Please enter a prompt.", args |-> << >>] >>]
       ELSE /\ pc' = "validate"
            /\ context' = [context EXCEPT !.prompt = << Strip(user_text) >>]
            /\ UNCHANGED failed
    /\ UNCHANGED << mode, method, api_key, user_text, response_text,
                    sql_query, safety, db_result, exit_code, out, steps >>
    /\ UNCHANGED fnVars

\* if not validate_sql_query(prompt): the rejection is rendered
IndexValidate ==
    /\ mode = "web" /\ pc = "validate"
    /\ \E ok \in { validate_sql_query(prompt) } :
           /\ steps' = Append(steps, Step("relevance", prompt, ok))
           /\ IF ~ok
              THEN WebError("input-irrelevant",
                            "This service only accepts SQL query requests for the transaction table. Please provide a SQL-related question.",
                            << >>)
              ELSE /\ pc' = "api_key"
                   /\ UNCHANGED << failed, context >>
    /\ UNCHANGED << mode, method, api_key, user_text, prompt, response_text,
                    sql_query, safety, db_result, exit_code, out >>
    /\ UNCHANGED fnVars

\* api_key = os.getenv("OPENAI_API_KEY"); a missing key is an error
IndexApiKey ==
    /\ mode = "web" /\ pc = "api_key"
    /\ IF ~api_key
       THEN WebError("no-credential", "OpenAI API key not found in .env file.", << >>)
       ELSE /\ pc' = "client"
            /\ UNCHANGED << failed, context >>
    /\ UNCHANGED << mode, method, api_key, user_text, prompt, response_text,
                    sql_query, safety, db_result, exit_code, out, steps >>
    /\ UNCHANGED fnVars

\* client = OpenAI(api_key=api_key), inside the try: an exception is rendered
\* as an unexpected error
IndexClient ==
    /\ mode = "web" /\ pc = "client"
    /\ \E raised \in BOOLEAN :
         IF raised
         THEN WebError("client-init", "Unexpected error: {e}", << >>)
         ELSE /\ pc' = "generate"
              /\ UNCHANGED << failed, context >>
    /\ UNCHANGED << mode, method, api_key, user_text, prompt, response_text,
                    sql_query, safety, db_result, exit_code, out, steps >>
    /\ UNCHANGED fnVars

\* what the except clauses of index() render for a generation exception
IndexGenerationMessage(e) ==
    IF e = "AuthenticationError" THEN "Invalid API key. Please check your API key in .env file."
    ELSE IF e = "APIConnectionError" THEN "Network connection failed: {e}"
    ELSE IF e = "APIError" THEN "OpenAI API error: {e}"
    ELSE "Unexpected error: {e}"

\* response = client.chat.completions.create(...): one call, no retry
IndexGenerate ==
    /\ mode = "web" /\ pc = "generate"
    /\ \/ \E e \in GenerationErrors :
            /\ steps' = Append(steps, Step("generate", prompt, FALSE))
            /\ WebError(GenerationFailure(e), IndexGenerationMessage(e), << >>)
            /\ UNCHANGED response_text
       \/ \E c \in Completions :
            /\ steps' = Append(steps, Step("generate", prompt, TRUE))
            /\ response_text' = c
            /\ pc' = "refusal"
            /\ UNCHANGED << failed, context >>
    /\ UNCHANGED << mode, method, api_key, user_text, prompt,
                    sql_query, safety, db_result, exit_code, out >>
    /\ UNCHANGED fnVars

\* if response_text.startswith("ERROR:"): context['error'] = response_text
IndexRefusal ==
    /\ mode = "web" /\ pc = "refusal"
    /\ IF StartsWith(response_text, W_ERROR)
       THEN WebError("refusal", "{response_text}", << response_text >>)
       ELSE /\ pc' = "extract"
            /\ UNCHANGED << failed, context >>
    /\ UNCHANGED << mode, method, api_key, user_text, prompt, response_text,
                    sql_query, safety, db_result, exit_code, out, steps >>
    /\ UNCHANGED fnVars

\* sql_query = extract_sql_query(response_text); context['sql_query'] =
\* sql_query; an exception it raises is caught by except Exception
IndexExtract ==
    /\ mode = "web" /\ pc = "extract"
    /\ \E r \in { extract_sql_query(response_text) } :
           /\ steps' = Append(steps, Step("extract", r.text, r.ok))
           /\ IF ~r.ok
              THEN /\ WebError("unexpected", "Unexpected error: {e}", << >>)
                   /\ UNCHANGED sql_query
              ELSE /\ sql_query' = r.text
                   /\ context' = [context EXCEPT !.sql_query = << r.text >>]
                   /\ pc' = "safety"
                   /\ UNCHANGED failed
    /\ UNCHANGED << mode, method, api_key, user_text, prompt, response_text,
                    safety, db_result, exit_code, out >>
    /\ UNCHANGED fnVars

\* is_safe, error_msg = validate_sql_safety(sql_query); if not is_safe the
\* message is rendered and the query is not run
IndexSafety ==
    /\ mode = "web" /\ pc = "safety"
    /\ \E r \in { validate_sql_safety(sql_query) } :
           /\ safety' = [done |-> TRUE, is_safe |-> r.is_safe, keyword |-> r.keyword]
           /\ steps' = Append(steps, Step("safety", sql_query, r.is_safe))
           /\ IF ~r.is_safe
              THEN WebError("safety-rejected", "SQL Safety Error: {error_msg}", << r.keyword >>)
              ELSE /\ pc' = "execute"
                   /\ UNCHANGED << failed, context >>
    /\ UNCHANGED << mode, method, api_key, user_text, prompt, response_text,
                    sql_query, db_result, exit_code, out >>
    /\ UNCHANGED fnVars

\* The execution step that renders a database error without its message; a faulty variant kept for comparison.
IndexExecute_generic_error ==
    /\ mode = "web" /\ pc = "execute"
    /\ \/ \E e \in DbErrors :
            /\ steps' = Append(steps, Step("execute", sql_query, FALSE))
            /\ db_result' = [db_result EXCEPT !.error = << DatabaseError(e) >>]
            /\ WebError("execution-failure", "Database Error", << >>)
       \/ \E shape \in ResultShapes :
            /\ steps' = Append(steps, Step("execute", sql_query, TRUE))
            /\ db_result' = [done |-> TRUE, columns |-> shape.columns, rows |-> shape.rows, error |-> << >>]
            /\ context' = [context EXCEPT !.columns = << shape.columns >>,
                                          !.rows = << shape.rows >>]
            /\ pc' = "analyze"
            /\ UNCHANGED failed
    /\ UNCHANGED << mode, method, api_key, user_text, prompt, response_text,
                    sql_query, safety, exit_code, out >>
    /\ UNCHANGED fnVars

\* columns, rows = execute_sql_query(sql_query): cursor.execute(sql_query),
\* once; the result goes to the context, a database error is rendered
IndexExecute ==
    /\ mode = "web" /\ pc = "execute"
    /\ \/ \E e \in DbErrors :
            /\ steps' = Append(steps, Step("execute", sql_query, FALSE))
            /\ db_result' = [db_result EXCEPT !.error = << DatabaseError(e) >>]
            /\ WebError("execution-failure", "Database Error: {db_error}", << DatabaseError(e) >>)
       \/ \E shape \in ResultShapes :
            /\ steps' = Append(steps, Step("execute", sql_query, TRUE))
            /\ db_result' = [done |-> TRUE, columns |-> shape.columns, rows |-> shape.rows, error |-> << >>]
            /\ context' = [context EXCEPT !.columns = << shape.columns >>,
                                          !.rows = << shape.rows >>]
            /\ pc' = "analyze"
            /\ UNCHANGED failed
    /\ UNCHANGED << mode, method, api_key, user_text, prompt, response_text,
                    sql_query, safety, exit_code, out >>
    /\ UNCHANGED fnVars

\* the outcomes of analyze_results(...): the text the model returned, the
\* failure text analyze_results returns when its call to the model raises,
\* or an exception raised before the call, which index() catches
AnalysisOutcomes == { "returned", "call-raised", "raised-before-call" }

\* context['analysis'] after the outcome
AnalysisText(outcome) ==
    [fmt |-> IF outcome = "returned" THEN "{analysis}"
             ELSE IF outcome = "call-raised" THEN "Error generating analysis: {e}"
             ELSE "Could not generate analysis: {analysis_error}",
     args |-> << >>]

\* The analysis step that reports a failed analysis as the error of the request; a faulty variant kept for comparison.
IndexAnalyze_failure_is_error ==
    /\ mode = "web" /\ pc = "analyze"
    /\ IF db_result.columns > 0 /\ db_result.rows > 0
       THEN \E outcome \in AnalysisOutcomes :
              /\ steps' = IF outcome = "raised-before-call" THEN steps
                          ELSE Append(steps, Step("analyze", sql_query, outcome = "returned"))
              /\ context' = IF outcome = "returned"
                            THEN [context EXCEPT !.analysis = << AnalysisText(outcome) >>]
                            ELSE [context EXCEPT !.error = << AnalysisText(outcome) >>]
       ELSE UNCHANGED << steps, context >>
    /\ pc' = "rendered"
    /\ UNCHANGED << mode, method, api_key, user_text, prompt, response_text,
                    sql_query, safety, db_result, exit_code, out, failed >>
    /\ UNCHANGED fnVars

\* The analysis step that asks for an analysis of every result, empty or not; a faulty variant kept for comparison.
IndexAnalyze_always ==
    /\ mode = "web" /\ pc = "analyze"
    /\ \E outcome \in AnalysisOutcomes :
          /\ steps' = IF outcome = "raised-before-call" THEN steps
                      ELSE Append(steps, Step("analyze", sql_query, outcome = "returned"))
          /\ context' = [context EXCEPT !.analysis = << AnalysisText(outcome) >>]
    /\ pc' = "rendered"
    /\ UNCHANGED << mode, method, api_key, user_text, prompt, response_text,
                    sql_query, safety, db_result, exit_code, out, failed >>
    /\ UNCHANGED fnVars

\* if columns and rows: context['analysis'] = analyze_results(...), one call
\* to the model; its failure goes to context['analysis'] and nowhere else;
\* then the page is rendered
IndexAnalyze ==
    /\ mode = "web" /\ pc = "analyze"
    /\ IF db_result.columns > 0 /\ db_result.rows > 0
       THEN \E outcome \in AnalysisOutcomes :
              /\ steps' = IF outcome = "raised-before-call" THEN steps
                          ELSE Append(steps, Step("analyze", sql_query, outcome = "returned"))
              /\ context' = [context EXCEPT !.analysis = << AnalysisText(outcome) >>]
       ELSE UNCHANGED << steps, context >>
    /\ pc' = "rendered"
    /\ UNCHANGED << mode, method, api_key, user_text, prompt, response_text,
                    sql_query, safety, db_result, exit_code, out, failed >>
    /\ UNCHANGED fnVars

Next ==
    \/ MainLoadConfig \/ MainClient \/ MainValidate \/ MainGenerate
    \/ MainRefusal \/ MainExtract \/ MainSafety \/ MainExecute \/ MainFormat
    \/ IndexGet \/ IndexPost \/ IndexValidate \/ IndexApiKey \/ IndexClient
    \/ IndexGenerate \/ IndexRefusal \/ IndexExtract \/ IndexSafety
    \/ IndexExecute \/ IndexAnalyze

Spec == Init /\ [][Next]_vars

(***************************************************************************)
(* Properties of one request                                               *)
(***************************************************************************)
StepsNamed(name) == { i \in 1..Len(steps) : steps[i].step = name }

Rejected(name) == \E i \in StepsNamed(name) : ~steps[i].ok

Ended == pc \in {"exited", "rendered"}

\* C1: in the CLI and in the web pipeline the executor is invoked only with
\* the exact text that the extractor produced and the safety gate accepted
\* in that request, and never in a request whose safety gate rejected.
C1_ExecutorOnlyAccepted ==
    /\ \A i \in StepsNamed("execute") :
          \E j \in StepsNamed("extract"), k \in StepsNamed("safety") :
             /\ j < k /\ k < i
             /\ steps[j].ok /\ steps[j].text = steps[i].text
             /\ steps[k].ok /\ steps[k].text = steps[i].text
    /\ Rejected("safety") => StepsNamed("execute") = {}

\* C1 witness: a fenced or JSON completion was extracted, accepted and the
\* extracted text, not the completion, was executed.
C1_Witness ==
    \E i \in StepsNamed("execute") :
        steps[i].text = sql_query /\ sql_query # response_text /\ safety.is_safe

\* words that make a PostgreSQL statement write: the verbs of the denylist
\* and statements the denylist does not name (ABORT and BEGIN change the
\* transaction state, MERGE and COPY table data, SELECT ... INTO the schema)
WriteWords ==
    { dangerous_keywords[k] : k \in 1..Len(dangerous_keywords) }
        \cup { W_ABORT, W_MERGE, W_COPY, W_INTO, W_BEGIN }

\* the statement has a writing word as a separate word
MayWrite(stmt) ==
    \E sp \in WordSpans(stmt) : Upper(SubSeq(stmt, sp[1], sp[2])) \in WriteWords

\* C2: every statement passed to the executor is read-only: none that
\* mutates table data, schema, privileges or transaction state reaches it.
C2_OnlyReadOnlyExecuted ==
    \A i \in StepsNamed("execute") : ~MayWrite(steps[i].text)

RejectionText ==
    "This service only accepts SQL query requests for the transaction table. Please provide a SQL-related question."

\* C6: when the relevance filter rejects the input, the request ends with the
\* user-facing rejection and neither the generation call nor the database
\* call (nor the analysis call) is made at any point of the request.
C6_RejectedInputNoCalls ==
    Rejected("relevance") =>
        /\ Ended
        /\ \A i \in 1..Len(steps) : steps[i].step \notin {"generate", "execute", "analyze"}
        /\ mode = "cli" =>
              /\ exit_code = 1
              /\ out[Len(out)] = Line("stderr", "ERROR: " \o RejectionText, << >>)
        /\ mode = "web" =>
              context.error = << [fmt |-> RejectionText, args |-> << >>] >>

\* C6 witness: the web request with prompt "hi" ended with the rejection.
C6_Witness ==
    /\ mode = "web" /\ pc = "rendered"
    /\ prompt = T_hi
    /\ Rejected("relevance")
    /\ context.error # << >>

PipelineSteps ==
    { "relevance", "generate", "extract", "safety", "execute", "format", "analyze" }

\* an error of the request has occurred
ErrorOccurred ==
    \/ failed # "none"
    \/ \E i \in 1..Len(steps) : steps[i].step # "analyze" /\ ~steps[i].ok

\* C9: every error of a request is terminal: once it has occurred no step of
\* the pipeline runs (so the failed step is not attempted again), and each
\* step, the generation call and the database execution among them, is made
\* at most once per request.
C9_ErrorsTerminal ==
    /\ [](\A name \in PipelineSteps : Cardinality(StepsNamed(name)) <= 1)
    /\ [](ErrorOccurred => Ended /\ failed # "none")
    /\ [][~ErrorOccurred]_vars

\* C9 witness: the database raised and the request ended with that error.
C9_Witness ==
    /\ failed = "execution-failure"
    /\ Rejected("execute")
    /\ Ended

\* C10: a CLI run ends with status 0 or 1: with 1 for a missing credential,
\* a rejected input, a refusal beginning with ERROR:, a generation failure,
\* a safety rejection and an execution or formatting failure; with 0 only
\* when the query passed the safety gate, was executed and its formatted
\* result was printed.
C10_ExitCodes ==
    mode = "cli" =>
        /\ exit_code \in {-1, 0, 1}
        /\ (pc = "exited") = (exit_code # -1)
        /\ pc = "exited" =>
              /\ ~api_key => exit_code = 1
              /\ Rejected("relevance") => exit_code = 1
              /\ Rejected("generate") => exit_code = 1
              /\ (Len(response_text) >= 6 /\ SubSeq(response_text, 1, 6) = W_ERROR)
                    => exit_code = 1
              /\ Rejected("safety") => exit_code = 1
              /\ Rejected("execute") => exit_code = 1
              /\ Rejected("format") => exit_code = 1
              /\ exit_code = 0 =>
                    /\ \E k \in StepsNamed("safety") : steps[k].ok
                    /\ \E i \in StepsNamed("execute") : steps[i].ok
                    /\ out[Len(out)] = Line("stdout", "{results}", << >>)
                    /\ failed = "none"

\* C10 witness: a CLI run ended with status 0 after printing its result.
C10_Witness ==
    /\ mode = "cli" /\ pc = "exited" /\ exit_code = 0
    /\ out # << >> /\ out[Len(out)].stream = "stdout"


\* the page my_app/index.html renders from the context: one section for each
\* field of the context that is not None (error, generated SQL, result
\* table, analysis), showing the field's value
PageSections ==
    IF mode = "web" /\ pc = "rendered"
    THEN [f \in { g \in DOMAIN context : context[g] # << >> } |-> context[f][1]]
    ELSE [f \in {} |-> << >>]

\* the error section of the page carries the text
PageErrorShows(text) ==
    /\ "error" \in DOMAIN PageSections
    /\ \E k \in 1..Len(PageSections["error"].args) :
          Contains(PageSections["error"].args[k], text)

\* the generated-SQL section of the page shows the text
PageSqlShows(text) ==
    /\ "sql_query" \in DOMAIN PageSections
    /\ PageSections["sql_query"] = text

\* a line printed to stderr carries the text
StderrShows(text) ==
    \E i \in 1..Len(out) :
        /\ out[i].stream = "stderr"
        /\ \E k \in 1..Len(out[i].args) : Contains(out[i].args[k], text)

\* C11: when the safety gate rejects a query, the output shown to the user
\* (stderr of the CLI, the rendered page of the web view) contains the
\* denylisted keyword that was found and the rejected query text; when the
\* execution fails it contains the database error message and the text of
\* the query that failed.
C11_ErrorOutput ==
    /\ (Ended /\ Rejected("safety")) =>
          /\ \E k \in 1..Len(dangerous_keywords) : safety.keyword = dangerous_keywords[k]
          /\ mode = "cli" => StderrShows(safety.keyword) /\ StderrShows(sql_query)
          /\ mode = "web" => PageErrorShows(safety.keyword) /\ PageSqlShows(sql_query)
    /\ (Ended /\ Rejected("execute")) =>
          /\ \E e \in DbErrors :
                /\ db_result.error = << DatabaseError(e) >>
                /\ mode = "cli" => StderrShows(e) /\ StderrShows(sql_query)
                /\ mode = "web" => PageErrorShows(e) /\ PageSqlShows(sql_query)

\* C11 witness: a web request whose query the database refused has been
\* rendered.
C11_Witness ==
    /\ mode = "web" /\ pc = "rendered"
    /\ Rejected("execute")
    /\ db_result.error # << >>

\* the completion, after trimming, begins with the refusal marker
RefusalCompletion ==
    /\ \E i \in StepsNamed("generate") : steps[i].ok
    /\ StartsWith(Strip(response_text), W_ERROR)

\* C15: a completion whose text, after trimming surrounding whitespace,
\* begins with ERROR: ends the request (CLI and web) with that text reported
\* as the error, and is never passed to the extractor, the safety gate or the
\* executor.
C15_RefusalNeverProcessed ==
    RefusalCompletion =>
        /\ \A i \in 1..Len(steps) : steps[i].step \notin {"extract", "safety", "execute"}
        /\ Ended =>
              /\ failed = "refusal"
              /\ mode = "cli" =>
                    /\ exit_code = 1
                    /\ out[Len(out)] = Line("stderr", "{response_text}", << response_text >>)
              /\ mode = "web" =>
                    context.error = << [fmt |-> "{response_text}", args |-> << response_text >>] >>

\* C17: in every page the web view renders the error section and the result
\* sections exclude each other: when context['error'] is set, columns, rows
\* and analysis are None; rows is set only if the query in
\* context['sql_query'] passed the safety gate and was executed successfully
\* in this request; and a GET request renders every field as None.
C17_ErrorExcludesResults ==
    (mode = "web" /\ pc = "rendered") =>
        /\ context.error # << >> =>
              context.columns = << >> /\ context.rows = << >> /\ context.analysis = << >>
        /\ context.rows # << >> =>
              /\ context.sql_query = << sql_query >>
              /\ \E k \in StepsNamed("safety") : steps[k].ok /\ steps[k].text = sql_query
              /\ \E i \in StepsNamed("execute") : steps[i].ok /\ steps[i].text = sql_query
              /\ context.rows = << db_result.rows >>
        /\ method = "GET" => context = EmptyContext

\* C17 witness: a page with a result table and no error has been rendered.
C17_Witness ==
    /\ mode = "web" /\ pc = "rendered"
    /\ context.rows # << >> /\ context.error = << >>

\* C18: in the web pipeline the analysis call is made only after the query
\* was executed successfully with a non-empty column list and a non-empty row
\* list, and at most once; when it fails the request has no error: the
\* executed SQL, the columns and the rows stay as they were and only
\* context['analysis'] carries the failure text.
C18_AnalysisAfterResults ==
    /\ Cardinality(StepsNamed("analyze")) <= 1
    /\ \A i \in StepsNamed("analyze") :
          /\ mode = "web"
          /\ \E j \in StepsNamed("execute") : j < i /\ steps[j].ok
          /\ db_result.done /\ db_result.columns > 0 /\ db_result.rows > 0
    /\ Rejected("analyze") =>
          /\ pc = "rendered"
          /\ failed = "none"
          /\ context.error = << >>
          /\ context.sql_query = << sql_query >>
          /\ context.columns = << db_result.columns >>
          /\ context.rows = << db_result.rows >>
          /\ context.analysis = << AnalysisText("call-raised") >>

\* C18 witness: the analysis call failed and the page was rendered with the
\* result.
C18_Witness ==
    /\ mode = "web" /\ pc = "rendered"
    /\ Rejected("analyze")
    /\ context.rows # << >>
(***************************************************************************)
(* Result formatting: format_results_for_analysis and analyze_results of   *)
(* my_app/views.py, format_results of main.py.  A result set is the column *)
(* names and the row tuples the cursor returned; a value is None, an       *)
(* integer or a text.                                                      *)
(***************************************************************************)
NoneValue == [t |-> "none", i |-> 0, s |-> << >>]

IntValue(n) == [t |-> "int", i |-> n, s |-> << >>]

TextValue(s) == [t |-> "str", i |-> 0, s |-> s]

DigitChars == <<"0", "1", "2", "3", "4", "5", "6", "7", "8", "9">>

RECURSIVE IntToStr(_)
\* str(n) for an integer n >= 0
IntToStr(n) ==
    IF n < 10 THEN << DigitChars[n + 1] >>
    ELSE IntToStr(n \div 10) \o << DigitChars[(n % 10) + 1] >>

\* str(value)
Str(v) ==
    IF v.t = "none" THEN <<"N", "o", "n", "e">>
    ELSE IF v.t = "int" THEN IntToStr(v.i)
    ELSE v.s

\* str(value) if value is not None else "NULL"
StrOrNull(v) == IF v.t = "none" THEN <<"N", "U", "L", "L">> ELSE Str(v)

RECURSIVE JoinWith(_, _)
\* sep.join(parts) for a separator text
JoinWith(parts, sep) ==
    IF parts = << >> THEN << >>
    ELSE IF Len(parts) = 1 THEN parts[1]
    ELSE parts[1] \o sep \o JoinWith(Tail(parts), sep)

\* ch * n
Repeat(ch, n) == [k \in 1..n |-> ch]

RECURSIVE SumLen(_)
\* sum(len(str(col)) for col in columns)
SumLen(parts) ==
    IF parts = << >> THEN 0 ELSE Len(parts[1]) + SumLen(Tail(parts))

ColumnSeparator == <<" ", "|", " ">>

\* f"Query Results ({len(rows)} row{'s' if len(rows) != 1 else ''})"
ResultsHeading(n) ==
    <<"Q", "u", "e", "r", "y", " ", "R", "e", "s", "u", "l", "t", "s", " ", "(">> \o IntToStr(n) \o <<" ", "r", "o", "w">>
        \o (IF n # 1 THEN <<"s">> ELSE << >>) \o <<")">>

max_rows_for_analysis == 100

\* " | ".join(str(value) if value is not None else "NULL" for value in row) + "\n"
AnalysisRow(row) ==
    JoinWith([k \in 1..Len(row) |-> StrOrNull(row[k])], ColumnSeparator) \o << NL >>

RECURSIVE AnalysisRows(_, _, _)
\* for row in rows[:limit]: result += ..., from row k on; the rows are taken
\* half by half, which keeps the evaluation shallow and the text the same
AnalysisRows(rows, k, limit) ==
    IF k > Len(rows) \/ k > limit THEN << >>
    ELSE IF k = Len(rows) \/ k = limit THEN AnalysisRow(rows[k])
    ELSE AnalysisRows(rows, k, (k + (IF limit < Len(rows) THEN limit ELSE Len(rows))) \div 2)
            \o AnalysisRows(rows, (k + (IF limit < Len(rows) THEN limit ELSE Len(rows))) \div 2 + 1, limit)

\* the heading, the header line and the line of dashes
AnalysisHead(columns, n) ==
    ResultsHeading(n) \o <<":", NL, NL>>
        \o JoinWith(columns, ColumnSeparator) \o << NL >>
        \o Repeat("-", SumLen(columns) + 3 * (Len(columns) - 1)) \o << NL >>

\* f"\n... (showing first {max_rows_for_analysis} of {len(rows)} rows)\n"
TruncationNotice(limit, n) ==
    << NL >> \o <<".", ".", ".", " ", "(", "s", "h", "o", "w", "i", "n", "g", " ", "f", "i", "r", "s", "t", " ">> \o IntToStr(limit) \o <<" ", "o", "f", " ">>
        \o IntToStr(n) \o <<" ", "r", "o", "w", "s", ")">> \o << NL >>

\* The formatter that sends every row; a faulty variant kept for comparison.
format_results_for_analysis_unlimited(columns, rows) ==
    IF columns = << >> THEN <<"N", "o", " ", "c", "o", "l", "u", "m", "n", "s", " ", "r", "e", "t", "u", "r", "n", "e", "d", ".">>
    ELSE IF rows = << >> THEN <<"Q", "u", "e", "r", "y", " ", "e", "x", "e", "c", "u", "t", "e", "d", " ", "s", "u", "c", "c", "e", "s", "s", "f", "u", "l", "l", "y", ".", " ", "N", "o", " ", "r", "o", "w", "s", " ", "r", "e", "t", "u", "r", "n", "e", "d", ".">>
    ELSE AnalysisHead(columns, Len(rows)) \o AnalysisRows(rows, 1, Len(rows))
            \o (IF Len(rows) > max_rows_for_analysis
                THEN TruncationNotice(max_rows_for_analysis, Len(rows)) ELSE << >>)

format_results_for_analysis(columns, rows) ==
    IF columns = << >> THEN <<"N", "o", " ", "c", "o", "l", "u", "m", "n", "s", " ", "r", "e", "t", "u", "r", "n", "e", "d", ".">>
    ELSE IF rows = << >> THEN <<"Q", "u", "e", "r", "y", " ", "e", "x", "e", "c", "u", "t", "e", "d", " ", "s", "u", "c", "c", "e", "s", "s", "f", "u", "l", "l", "y", ".", " ", "N", "o", " ", "r", "o", "w", "s", " ", "r", "e", "t", "u", "r", "n", "e", "d", ".">>
    ELSE AnalysisHead(columns, Len(rows))
            \o AnalysisRows(rows, 1, max_rows_for_analysis)
            \o (IF Len(rows) > max_rows_for_analysis
                THEN TruncationNotice(max_rows_for_analysis, Len(rows)) ELSE << >>)

\* the user message analyze_results sends to the model
analysis_prompt(original_prompt, sql, results_text) ==
    <<"P", "l", "e", "a", "s", "e", " ", "a", "n", "a", "l", "y", "z", "e", " ", "t", "h", "e", " ", "f", "o", "l", "l", "o", "w", "i", "n", "g", " ", "S", "Q", "L", " ", "q", "u", "e", "r", "y", " ", "r", "e", "s", "u", "l", "t", "s", " ", "a", "n", "d", " ", "p", "r", "o", "v", "i", "d", "e", " ", "i", "n", "s", "i", "g", "h", "t", "s", ".", NL, NL, "O", "r", "i", "g", "i", "n", "a", "l", " ", "u", "s", "e", "r", " ", "r", "e", "q", "u", "e", "s", "t", ":", " ">> \o original_prompt
        \o <<NL, NL, "S", "Q", "L", " ", "Q", "u", "e", "r", "y", " ", "e", "x", "e", "c", "u", "t", "e", "d", ":", NL>> \o sql
        \o <<NL, NL, "Q", "u", "e", "r", "y", " ", "R", "e", "s", "u", "l", "t", "s", ":", NL>> \o results_text
        \o <<NL, NL, "P", "l", "e", "a", "s", "e", " ", "p", "r", "o", "v", "i", "d", "e", ":", NL, "1", ".", " ", "A", " ", "b", "r", "i", "e", "f", " ", "s", "u", "m", "m", "a", "r", "y", " ", "o", "f", " ", "w", "h", "a", "t", " ", "t", "h", "e", " ", "d", "a", "t", "a", " ", "s", "h", "o", "w", "s", NL, "2", ".", " ", "K", "e", "y", " ", "i", "n", "s", "i", "g", "h", "t", "s", " ", "o", "r", " ", "p", "a", "t", "t", "e", "r", "n", "s", " ", "y", "o", "u", " ", "n", "o", "t", "i", "c", "e", NL, "3", ".", " ", "A", "n", "y", " ", "n", "o", "t", "a", "b", "l", "e", " ", "o", "b", "s", "e", "r", "v", "a", "t", "i", "o", "n", "s", " ", "o", "r", " ", "t", "r", "e", "n", "d", "s", NL, "4", ".", " ", "R", "e", "c", "o", "m", "m", "e", "n", "d", "a", "t", "i", "o", "n", "s", " ", "o", "r", " ", "c", "o", "n", "c", "l", "u", "s", "i", "o", "n", "s", " ", "b", "a", "s", "e", "d", " ", "o", "n", " ", "t", "h", "e", " ", "d", "a", "t", "a", NL, NL, "B", "e", " ", "c", "o", "n", "c", "i", "s", "e", " ", "b", "u", "t", " ", "i", "n", "f", "o", "r", "m", "a", "t", "i", "v", "e", ".", " ", "F", "o", "c", "u", "s", " ", "o", "n", " ", "a", "c", "t", "i", "o", "n", "a", "b", "l", "e", " ", "i", "n", "s", "i", "g", "h", "t", "s", ".">>
(***************************************************************************)
(* Calls of format_results_for_analysis and analyze_results on result sets *)
(* of 0 to MaxRows rows                                                    *)
(***************************************************************************)
MaxRows == 102

W_id == <<"i", "d">>

W_city == <<"c", "i", "t", "y">>

W_Almaty == <<"A", "l", "m", "a", "t", "y">>

W_Astana == <<"A", "s", "t", "a", "n", "a">>

\* the column lists of the sample result sets
SampleColumns == { << >>, << W_id >>, << W_id, W_city >> }

\* row i of the sample result sets: its number and a city, None in every
\* third row
SampleRow(i, width) ==
    SubSeq(<< IntValue(i),
              IF i % 3 = 0 THEN NoneValue
              ELSE IF i % 3 = 1 THEN TextValue(W_Almaty) ELSE TextValue(W_Astana) >>,
           1, width)

SampleRows(n, width) == [i \in 1..n |-> SampleRow(i, width)]

SampleResultSets(max_rows) ==
    { [columns |-> cols, rows |-> SampleRows(n, Len(cols))] :
        cols \in SampleColumns, n \in 0..max_rows }

SamplePrompt == <<"t", "o", "p", " ", "1", "0">>

SampleSql == <<"S", "E", "L", "E", "C", "T", " ", "i", "d", ",", " ", "c", "i", "t", "y", " ", "F", "R", "O", "M", " ", "t">>

InitAnalysisFormat ==
    /\ IdlePipe
    /\ fn = "format_results_for_analysis"
    /\ arg \in SampleResultSets(MaxRows)
    /\ ret = [text |-> NotCalled, sent |-> NotCalled]
    /\ loader = IdleLoader
    /\ table = << >>

\* the harness calls format_results_for_analysis(columns, rows)
CallFormatForAnalysis ==
    /\ fn = "format_results_for_analysis"
    /\ ~ret.text.done
    /\ \E r \in { format_results_for_analysis(arg.columns, arg.rows) } :
         ret' = [ret EXCEPT !.text = [done |-> TRUE, ok |-> TRUE, text |-> r]]
    /\ UNCHANGED << fn, arg, loader, table >>
    /\ UNCHANGED pipeVars

\* the harness calls analyze_results(client, prompt, sql, columns, rows);
\* sent is the user message of its call to the model
CallAnalyzeResults ==
    /\ fn = "format_results_for_analysis"
    /\ ~ret.sent.done
    /\ \E r \in { analysis_prompt(SamplePrompt, SampleSql,
                                  format_results_for_analysis(arg.columns, arg.rows)) } :
         ret' = [ret EXCEPT !.sent = [done |-> TRUE, ok |-> TRUE, text |-> r]]
    /\ UNCHANGED << fn, arg, loader, table >>
    /\ UNCHANGED pipeVars

NextAnalysisFormat == CallFormatForAnalysis \/ CallAnalyzeResults

SpecAnalysisFormat == InitAnalysisFormat /\ [][NextAnalysisFormat]_vars

DigitSet == { DigitChars[k] : k \in 1..10 }

DigitValue(c) == (CHOOSE k \in 1..10 : DigitChars[k] = c) - 1

RECURSIVE StrToInt(_)
\* the number a text of decimal digits denotes
StrToInt(digits) ==
    IF digits = << >> THEN 0
    ELSE 10 * StrToInt(SubSeq(digits, 1, Len(digits) - 1)) + DigitValue(digits[Len(digits)])

\* the length of the longest prefix of the line made of digits
LeadingDigits(line) ==
    IF \A k \in 1..Len(line) : line[k] \in DigitSet THEN Len(line)
    ELSE (CHOOSE k \in 1..Len(line) :
            line[k] \notin DigitSet /\ \A j \in 1..(k - 1) : line[j] \in DigitSet) - 1

\* a line that renders a row of a sample result set: the row's number, alone
\* or followed by the column separator
IsDataLine(line) ==
    /\ LeadingDigits(line) > 0
    /\ \/ LeadingDigits(line) = Len(line)
       \/ MatchAt(line, ColumnSeparator, LeadingDigits(line) + 1)

\* the number of the row a data line renders
DataLineRow(line) == StrToInt(SubSeq(line, 1, LeadingDigits(line)))

RECURSIVE LinesOf(_)
\* the lines of a text, as text.split("\n") gives them; the text is cut at a
\* line break near its middle, which keeps the evaluation shallow
LinesOf(text) ==
    IF \A i \in 1..Len(text) : text[i] # NL THEN << text >>
    ELSE LET mid == (Len(text) + 1) \div 2
             i == IF \E k \in mid..Len(text) : text[k] = NL
                  THEN CHOOSE k \in mid..Len(text) :
                          text[k] = NL /\ \A j \in mid..(k - 1) : text[j] # NL
                  ELSE CHOOSE k \in 1..(mid - 1) :
                          text[k] = NL /\ \A j \in (k + 1)..(mid - 1) : text[j] # NL
         IN  LinesOf(SubSeq(text, 1, i - 1)) \o LinesOf(SubSeq(text, i + 1, Len(text)))

\* the positions of the data lines among the lines of a text
DataLines(lines) == { k \in 1..Len(lines) : IsDataLine(lines[k]) }

\* the number between "(" and " row" in the heading line
HeadingCount(line) == StrToInt(SubSeq(line, 16, 15 + LeadingDigits(SubSeq(line, 16, Len(line)))))

Min(a, b) == IF a < b THEN a ELSE b

\* the lines of the formatted text say what C12 promises of n rows
AnalysisTextAsPromised(lines, n) ==
    /\ HeadingCount(lines[1]) = n
    /\ DataLines(lines) = 5..(4 + Min(n, max_rows_for_analysis))
    /\ \A k \in DataLines(lines) : DataLineRow(lines[k]) = k - 4
    /\ (\E k \in 1..Len(lines) : StartsWith(lines[k], <<".", ".", ".", " ", "(", "s", "h", "o", "w", "i", "n", "g", " ", "f", "i", "r", "s", "t", " ">>))
          <=> n > max_rows_for_analysis

\* C12: for a result set with at least one column and n >= 1 rows,
\* format_results_for_analysis emits the first min(n, 100) rows, in their
\* order, and no other; its heading reports n; the truncation notice is
\* there exactly when n > 100; and the message analyze_results sends to the
\* model holds the same min(n, 100) data rows, never more than 100.
C12_AnalysisRowCap ==
    (/\ fn = "format_results_for_analysis"
     /\ arg.columns # << >> /\ arg.rows # << >>) =>
        /\ ret.text.done =>
              \A lines \in { LinesOf(ret.text.text) } :
                  AnalysisTextAsPromised(lines, Len(arg.rows))
        /\ ret.sent.done =>
              \A lines \in { LinesOf(ret.sent.text) } :
                  /\ Cardinality(DataLines(lines)) = Min(Len(arg.rows), max_rows_for_analysis)
                  /\ Cardinality(DataLines(lines)) <= max_rows_for_analysis
                  /\ \A k \in DataLines(lines) :
                        \A j \in DataLines(lines) :
                            k < j => DataLineRow(lines[k]) < DataLineRow(lines[j])

\* C12 witness: a result set of more than 100 rows has been formatted and
\* sent for analysis.
C12_Witness ==
    /\ fn = "format_results_for_analysis"
    /\ arg.columns # << >>
    /\ Len(arg.rows) > max_rows_for_analysis
    /\ ret.text.done /\ ret.sent.done
(***************************************************************************)
(* Terminal formatter: format_results of main.py                           *)
(***************************************************************************)
max_col_width == 50

Max(a, b) == IF a > b THEN a ELSE b

RECURSIVE MaxValueLen(_, _, _)
\* for row in rows: if i < len(row): max_width = max(max_width, len(str(row[i]))),
\* from row r on
MaxValueLen(rows, i, r) ==
    IF r > Len(rows) THEN 0
    ELSE Max(IF i <= Len(rows[r]) THEN Len(Str(rows[r][i])) ELSE 0,
             MaxValueLen(rows, i, r + 1))

\* the max_width computed for the column at position i
MaxWidthAt(columns, rows, i) == Max(Len(columns[i]), MaxValueLen(rows, i, 1))

\* the last position at which the name col occurs in columns: col_widths is
\* a dict keyed by the column name, so a later column of the same name
\* overwrites the entry
LastNamed(columns, col) ==
    CHOOSE i \in 1..Len(columns) :
        columns[i] = col /\ \A j \in (i + 1)..Len(columns) : columns[j] # col

\* col_widths[columns[i]] after the cap min(col_widths[col], max_col_width)
col_widths(columns, rows, i) ==
    Min(MaxWidthAt(columns, rows, LastNamed(columns, columns[i])), max_col_width)

\* s.ljust(width)
Ljust(s, width) ==
    IF Len(s) >= width THEN s ELSE s \o Repeat(" ", width - Len(s))

\* str(row[i])[:max_col_width] if len(str(row[i])) > max_col_width else str(row[i])
Truncated(v) ==
    IF Len(Str(v)) > max_col_width THEN SubSeq(Str(v), 1, max_col_width) ELSE Str(v)

\* header = " | ".join(str(col).ljust(col_widths[col]) for col in columns)
HeaderLine(columns, rows) ==
    JoinWith([i \in 1..Len(columns) |-> Ljust(columns[i], col_widths(columns, rows, i))],
             ColumnSeparator)

\* formatted_row for one row
FormattedRow(columns, rows, row) ==
    JoinWith([i \in 1..Len(columns) |->
                 Ljust(Truncated(row[i]), col_widths(columns, rows, i))],
             ColumnSeparator)

\* the text after the two early returns, given the header line
ResultsText(columns, rows, header) ==
    << NL >> \o ResultsHeading(Len(rows)) \o <<":", NL>>
        \o Repeat("=", Len(header)) \o << NL >>
        \o header \o << NL >>
        \o Repeat("-", Len(header)) \o << NL >>
        \o JoinWith([r \in 1..Len(rows) |-> FormattedRow(columns, rows, rows[r])], << NL >>)
        \o << NL >> \o Repeat("=", Len(header)) \o << NL >>

format_results(columns, rows) ==
    IF columns = << >> THEN <<"N", "o", " ", "c", "o", "l", "u", "m", "n", "s", " ", "r", "e", "t", "u", "r", "n", "e", "d", ".">>
    ELSE IF rows = << >> THEN <<"Q", "u", "e", "r", "y", " ", "e", "x", "e", "c", "u", "t", "e", "d", " ", "s", "u", "c", "c", "e", "s", "s", "f", "u", "l", "l", "y", ".", " ", "N", "o", " ", "r", "o", "w", "s", " ", "r", "e", "t", "u", "r", "n", "e", "d", ".">>
    ELSE ResultsText(columns, rows, HeaderLine(columns, rows))

\* column names of the sample result sets: short ones and one of
\* max_col_width + 1 characters
FormatColumnNames ==
    { <<"a">>, W_city, [k \in 1..(max_col_width + 1) |-> "n"] }

\* values of the sample result sets: None, a number, a short text and texts
\* of max_col_width and max_col_width + 1 characters
FormatValues ==
    { NoneValue, IntValue(7), TextValue(W_Almaty),
      TextValue([k \in 1..max_col_width |-> DigitChars[(k % 10) + 1]]),
      TextValue([k \in 1..(max_col_width + 1) |-> DigitChars[(k % 10) + 1]]) }

\* result sets of one or two columns and one to max_rows rows
FormatResultSets(max_rows) ==
    UNION { { [columns |-> cols, rows |-> rows] :
                rows \in UNION { [1..n -> [1..Len(cols) -> FormatValues]] : n \in 1..max_rows } } :
            cols \in UNION { [1..w -> FormatColumnNames] : w \in 1..2 } }

InitFormat ==
    /\ IdlePipe
    /\ fn = "format_results"
    /\ arg \in FormatResultSets(2)
    /\ ret = NotCalled
    /\ loader = IdleLoader
    /\ table = << >>

\* the harness calls format_results(columns, rows)
CallFormatResults ==
    /\ fn = "format_results"
    /\ ~ret.done
    /\ \E r \in { format_results(arg.columns, arg.rows) } :
         ret' = [done |-> TRUE, ok |-> TRUE, text |-> r]
    /\ UNCHANGED << fn, arg, loader, table >>
    /\ UNCHANGED pipeVars

NextFormat == CallFormatResults

SpecFormat == InitFormat /\ [][NextFormat]_vars

\* the width C13 gives column i
PromisedWidth(columns, rows, i) ==
    Min(max_col_width, Max(Len(columns[i]), MaxValueLen(rows, i, 1)))

RECURSIVE PromisedStart(_, _, _)
\* the position at which column i starts in a line of the aligned table
PromisedStart(columns, rows, i) ==
    IF i = 1 THEN 1
    ELSE PromisedStart(columns, rows, i - 1) + PromisedWidth(columns, rows, i - 1) + 3

\* the line is laid out on the promised columns: its length, the separator
\* before each column but the first
LineAligned(line, columns, rows) ==
    /\ Len(line) = PromisedStart(columns, rows, Len(columns))
                      + PromisedWidth(columns, rows, Len(columns)) - 1
    /\ \A i \in 2..Len(columns) :
          MatchAt(line, ColumnSeparator, PromisedStart(columns, rows, i) - 3)

\* the cell of column i in the line
Cell(line, columns, rows, i) ==
    SubSeq(line, PromisedStart(columns, rows, i),
           PromisedStart(columns, rows, i) + PromisedWidth(columns, rows, i) - 1)

\* the lines of the table say what C13 promises
TableAsPromised(lines, columns, rows) ==
    /\ Len(lines) = Len(rows) + 7
    /\ LineAligned(lines[4], columns, rows)
    /\ \A r \in 1..Len(rows) :
          /\ LineAligned(lines[5 + r], columns, rows)
          /\ \A i \in 1..Len(columns) :
                /\ Len(Str(rows[r][i])) > max_col_width =>
                      Cell(lines[5 + r], columns, rows, i)
                          = SubSeq(Str(rows[r][i]), 1, max_col_width)
                /\ Len(Str(rows[r][i])) <= max_col_width =>
                      Cell(lines[5 + r], columns, rows, i)
                          = Ljust(Str(rows[r][i]), PromisedWidth(columns, rows, i))

\* C13: for a result set with at least one column and one row, format_results
\* gives column i the width min(50, max(length of its name, longest value
\* length in it)), cuts a value longer than 50 characters to its first 50,
\* and renders the header line and every data row line with the same length
\* and every column separator at the same position.
C13_AlignedTable ==
    (fn = "format_results" /\ ret.done) =>
        \A lines \in { Split(ret.text, NL) } :
            TableAsPromised(lines, arg.columns, arg.rows)

(***************************************************************************)
(* Offline loader: Command.handle of management/commands/load_parquet.py.  *)
(* The snapshot file is the sequence of the sizes of its row groups; its   *)
(* rows are numbered 0, 1, ... in file order.  A list of rows is kept as a *)
(* sequence of ranges [lo, hi] of row numbers, in the order of the rows.   *)
(* The Transaction model declares no unique field, so bulk_create with     *)
(* ignore_conflicts=True inserts every object it is given under a new      *)
(* primary key.                                                            *)
(***************************************************************************)
db_batch_size == 5000

batch_size == 1000

slice_size == 500

\* the snapshot files: one group read in one batch, a group that ends inside
\* a fallback slice and is followed by another, groups read in several
\* batches, and a file of more than db_batch_size rows
SnapshotFiles ==
    { << 1000 >>, << 700, 300 >>, << 1200, 800 >>, << 5200 >> }

RECURSIVE RowsBefore(_, _)
\* sum(parquet_file.metadata.row_group(i).num_rows for i in range(rg_idx))
RowsBefore(file, rg_idx) ==
    IF rg_idx = 0 THEN 0 ELSE RowsBefore(file, rg_idx - 1) + file[rg_idx]

\* parquet_file.metadata.num_rows
NumRows(file) == RowsBefore(file, Len(file))

\* parquet_file.metadata.row_group(rg_idx).num_rows, rg_idx counted from 0
RowGroupSize(file, rg_idx) == file[rg_idx + 1]

RECURSIVE NumObjs(_)
\* len(batch_objs)
NumObjs(ranges) ==
    IF ranges = << >> THEN 0
    ELSE (ranges[1].hi - ranges[1].lo + 1) + NumObjs(Tail(ranges))

\* Transaction.objects.bulk_create(batch_objs, ...); total_loaded += len(batch_objs);
\* batch_objs = []
Flush(st) ==
    [st EXCEPT !.submitted = st.submitted \o st.batch_objs,
               !.table = st.table \o st.batch_objs,
               !.total_loaded = st.total_loaded + NumObjs(st.batch_objs),
               !.batch_objs = << >>]

RECURSIVE AppendRows(_, _, _)
\* for row in chunk_df.iter_rows(): batch_objs.append(Transaction(...)); if
\* len(batch_objs) >= db_batch_size: bulk_create, for the rows lo..hi
AppendRows(st, lo, hi) ==
    IF lo > hi THEN st
    ELSE IF NumObjs(st.batch_objs) + (hi - lo + 1) < db_batch_size
    THEN [st EXCEPT !.batch_objs = Append(st.batch_objs, [lo |-> lo, hi |-> hi])]
    ELSE AppendRows(
             Flush([st EXCEPT !.batch_objs =
                       Append(st.batch_objs,
                              [lo |-> lo,
                               hi |-> IF NumObjs(st.batch_objs) >= db_batch_size THEN lo
                                      ELSE lo + (db_batch_size - NumObjs(st.batch_objs)) - 1])]),
             IF NumObjs(st.batch_objs) >= db_batch_size THEN lo + 1
             ELSE lo + (db_batch_size - NumObjs(st.batch_objs)),
             hi)

\* the lists the loop over the rows updates
LoadState == [batch_objs |-> loader.batch_objs, total_loaded |-> loader.total_loaded,
              submitted |-> loader.submitted, table |-> table]

\* the loader and the table after the loop over the rows of a batch or a
\* slice; slices lists the slices the fallback has read
RowsHandled(st, reads, slices) ==
    /\ loader' = [loader EXCEPT !.batch_objs = st.batch_objs,
                                !.total_loaded = st.total_loaded,
                                !.submitted = st.submitted,
                                !.reads = reads,
                                !.slices = slices]
    /\ table' = st.table

\* the number of batches iter_batches(batch_size, row_groups=[rg_idx]) yields
NumBatches(file, rg_idx) ==
    (RowGroupSize(file, rg_idx) + batch_size - 1) \div batch_size

\* the next iteration of for rg_idx in range(num_row_groups), or the end of
\* the loop
NextRowGroup(l) ==
    [l EXCEPT !.rg_idx = l.rg_idx + 1, !.reads = 0,
              !.pc = IF l.rg_idx + 1 < Len(arg) THEN "primary" ELSE "final"]

InitLoader ==
    /\ IdlePipe
    /\ fn = "load_parquet"
    /\ arg \in SnapshotFiles
    /\ ret = << >>
    /\ loader = [IdleLoader EXCEPT !.pc = "primary", !.run = 1]
    /\ table = << >>

\* for arrow_batch in row_group_reader: the next batch of at most batch_size
\* rows of the row group is read and its rows are handled
LoadReadBatch ==
    /\ fn = "load_parquet" /\ loader.pc = "primary"
    /\ loader.reads < NumBatches(arg, loader.rg_idx)
    /\ \E lo \in { RowsBefore(arg, loader.rg_idx) + loader.reads * batch_size } :
         \E hi \in { Min(lo + batch_size, RowsBefore(arg, loader.rg_idx + 1)) - 1 } :
            RowsHandled(AppendRows(LoadState, lo, hi), loader.reads + 1, loader.slices)
    /\ UNCHANGED << fn, arg, ret >>
    /\ UNCHANGED pipeVars

\* the batch iterator is exhausted: the row group has been processed
LoadPrimaryDone ==
    /\ fn = "load_parquet" /\ loader.pc = "primary"
    /\ loader.reads = NumBatches(arg, loader.rg_idx)
    /\ loader' = NextRowGroup([loader EXCEPT !.processed = @ \cup {loader.rg_idx}])
    /\ UNCHANGED << fn, arg, ret, table >>
    /\ UNCHANGED pipeVars

\* iter_batches or the read of the next batch raises: except Exception, the
\* fallback reads the row group again, from its first row, in slices
LoadPrimaryFails ==
    /\ fn = "load_parquet" /\ loader.pc = "primary"
    /\ loader.reads < NumBatches(arg, loader.rg_idx)
    /\ loader' = [loader EXCEPT !.pc = "fallback", !.reads = 0]
    /\ UNCHANGED << fn, arg, ret, table >>
    /\ UNCHANGED pipeVars

\* for slice_offset in range(0, row_group_size, slice_size):
\* lf.slice(global_offset, slice_size).collect() returns the rows of the FILE
\* from global_offset on, at most slice_size of them, and they are handled
LoadReadSlice ==
    /\ fn = "load_parquet" /\ loader.pc = "fallback"
    /\ loader.reads * slice_size < RowGroupSize(arg, loader.rg_idx)
    /\ \E global_offset \in { RowsBefore(arg, loader.rg_idx) + loader.reads * slice_size } :
         \E hi \in { Min(global_offset + slice_size, NumRows(arg)) - 1 } :
            RowsHandled(AppendRows(LoadState, global_offset, hi), loader.reads + 1,
                        Append(loader.slices,
                               [rg_idx |-> loader.rg_idx, lo |-> global_offset, hi |-> hi]))
    /\ UNCHANGED << fn, arg, ret >>
    /\ UNCHANGED pipeVars

\* the slices are exhausted: the row group has been processed by the fallback
LoadFallbackDone ==
    /\ fn = "load_parquet" /\ loader.pc = "fallback"
    /\ loader.reads * slice_size >= RowGroupSize(arg, loader.rg_idx)
    /\ loader' = NextRowGroup([loader EXCEPT !.processed = @ \cup {loader.rg_idx}])
    /\ UNCHANGED << fn, arg, ret, table >>
    /\ UNCHANGED pipeVars

\* scan_parquet or the read of the next slice raises: except Exception as e2,
\* continue with the next row group
LoadFallbackFails ==
    /\ fn = "load_parquet" /\ loader.pc = "fallback"
    /\ loader.reads * slice_size < RowGroupSize(arg, loader.rg_idx)
    /\ loader' = NextRowGroup(loader)
    /\ UNCHANGED << fn, arg, ret, table >>
    /\ UNCHANGED pipeVars

\* if batch_objs: bulk_create(batch_objs, ...); total_loaded += len(batch_objs)
LoadFinal ==
    /\ fn = "load_parquet" /\ loader.pc = "final"
    /\ \E st \in { IF loader.batch_objs # << >> THEN Flush(LoadState) ELSE LoadState } :
         /\ loader' = [loader EXCEPT !.batch_objs = st.batch_objs,
                                     !.total_loaded = st.total_loaded,
                                     !.submitted = st.submitted,
                                     !.pc = "done"]
         /\ table' = st.table
    /\ UNCHANGED << fn, arg, ret >>
    /\ UNCHANGED pipeVars

\* the command is run a second time over the same file: handle() starts
\* again with its locals as constructed, the table as the first run left it
LoadAgain ==
    /\ fn = "load_parquet" /\ loader.pc = "done" /\ loader.run = 1
    /\ loader' = [IdleLoader EXCEPT !.pc = "primary", !.run = 2, !.first_run = table]
    /\ UNCHANGED << fn, arg, ret, table >>
    /\ UNCHANGED pipeVars

NextLoader ==
    \/ LoadReadBatch \/ LoadPrimaryDone \/ LoadPrimaryFails
    \/ LoadReadSlice \/ LoadFallbackDone \/ LoadFallbackFails
    \/ LoadFinal \/ LoadAgain

SpecLoader == InitLoader /\ [][NextLoader]_vars

\* how many times the row was given to bulk_create
TimesSubmitted(row, ranges) ==
    Cardinality({ k \in 1..Len(ranges) : ranges[k].lo <= row /\ row <= ranges[k].hi })

\* the rows of the row group
RowsOfGroup(file, rg_idx) ==
    RowsBefore(file, rg_idx)..(RowsBefore(file, rg_idx + 1) - 1)

\* the rows in the ranges
RowSet(ranges) == UNION { ranges[k].lo..ranges[k].hi : k \in 1..Len(ranges) }

\* C14: the bulk inserts are idempotent: after a second run of the load
\* command over the same snapshot file the Transaction table holds the same
\* rows, and as many, as after the first run.
C14_LoadIdempotent ==
    (fn = "load_parquet" /\ loader.pc = "done" /\ loader.run = 2) =>
        /\ NumObjs(table) = NumObjs(loader.first_run)
        /\ RowSet(table) = RowSet(loader.first_run)

\* C19: when the load command finishes, each row of every row group that was
\* processed, by the batch reader or by the fallback, has been given to
\* bulk_create exactly once; no fallback slice holds a row of a following row
\* group; total_loaded is the number of distinct rows submitted; and the
\* pending batch never holds db_batch_size or more objects after a row is
\* handled.
C19_EachRowSubmittedOnce ==
    fn = "load_parquet" =>
        /\ NumObjs(loader.batch_objs) < db_batch_size
        /\ loader.pc = "done" =>
              /\ \A k \in 1..Len(loader.slices) :
                    loader.slices[k].hi < RowsBefore(arg, loader.slices[k].rg_idx + 1)
              /\ \A rg_idx \in loader.processed :
                    \A row \in RowsOfGroup(arg, rg_idx) :
                        TimesSubmitted(row, loader.submitted) = 1
              /\ loader.total_loaded = Cardinality(RowSet(loader.submitted))
====
